---------------------------- MODULE Spec2Model ----------------------------
(***************************************************************************)
(* Model of the DIGGS schema compatibility analyzer:                       *)
(*   src/version_compatibility/fixed_resolver.py                           *)
(*   src/version_compatibility/diggs_compatibility_analyzer.py             *)
(*                                                                         *)
(* Strings are sequences of tokens: "eml:Foo" is <<"eml:", "Foo">>, the    *)
(* empty string is <<>>.  A namespace prefix is one token that ends with   *)
(* a colon, so str.replace('diggs:', '') removes the tokens "diggs:" and   *)
(* str.startswith('xs:') looks at the first token.  Python's None is the   *)
(* string None below.  A dict is a function whose DOMAIN is its key set;   *)
(* a content model carries the order of its keys as well.  A set of names  *)
(* is the hash table CPython builds: a function from slots to names.  An   *)
(* exception that leaves a call is the value the call returns (raised).    *)
(***************************************************************************)
EXTENDS Integers, Sequences, FiniteSets, TLC

VARIABLES
    old_dir,            \* self.old_dir: the .xsd files under it, in path order
    new_dir,            \* self.new_dir
    mapping_file,       \* self.mapping_file: whether it is there, and its lines
    old_simpletypes,    \* self.old_simpletypes: qualified name -> simpleType
    new_simpletypes,    \* self.new_simpletypes
    old_types,          \* self.old_types: qualified name -> complexType
    new_types,          \* self.new_types
    old_attrs,          \* self.old_attrs: bare name -> global xs:attribute
    new_attrs,          \* self.new_attrs
    type_mappings,      \* self.type_mappings
    type_compat_cache,  \* self.type_compat_cache: <<old, new>> -> (bool, reason)
    set_order,          \* the slots the names hash to in Python sets in this process
    last,               \* the last top-level call and what it returned
    rs_stack,           \* resolve_content_model: the frames of the recursion
    rs_ret,             \* resolve_content_model: value returned by the last frame
    rs_pc,              \* resolve_content_model: "enter" | "return" | "done" | "off"
    ck_stack,           \* check_type_content_compatibility: the frames of the recursion
    ck_ret,             \* check_type_content_compatibility: value the last frame returned
    ck_pc,              \* check_type_content_compatibility: "call" | "loop" | "return" | "done" | "off"
    ck_calls,           \* number of top-level calls of it made step by step
    an_pc               \* analyze: "idle", or "loaded" between its loading and its comparing

vars == <<old_dir, new_dir, mapping_file, old_simpletypes, new_simpletypes,
          old_types, new_types, old_attrs, new_attrs, type_mappings,
          type_compat_cache, set_order, last, rs_stack, rs_ret, rs_pc,
                ck_stack, ck_ret, ck_pc, ck_calls, an_pc>>

\* no call of check_type_content_compatibility is followed step by step
CheckOff ==
    /\ ck_stack = <<>>
    /\ ck_ret = [ok |-> TRUE, reason |-> <<>>]
    /\ ck_pc = "off"
    /\ ck_calls = 0

-----------------------------------------------------------------------------
(* Strings and dicts *)

None == <<"None">>

Str(tok) == <<tok>>

\* bool(s) for s a str or None
Truthy(s) == s # None /\ s # <<>>

\* node.get(attr, default): the attribute's value, the default when absent
Get(v, default) == IF v = None THEN default ELSE v

\* s.replace(tok, '')
Replace(s, tok) == SelectSeq(s, LAMBDA t : t # tok)

\* s.startswith(tok)
StartsWith(s, tok) == Len(s) > 0 /\ s[1] = tok

EmptyDict == [k \in {} |-> k]

\* d.update(e): e's entries replace d's entries of the same key
OverlayMutKeepBase(base, local) ==
    [k \in DOMAIN base \cup DOMAIN local |->
        IF k \in DOMAIN base THEN base[k] ELSE local[k]]
Overlay(base, local) == local @@ base

\* for item in items: d[item['name']] = item   (the last entry of a name stays)
PutAll(d, items) ==
    Overlay(d, [k \in {items[i].name : i \in 1..Len(items)} |->
                  items[CHOOSE i \in 1..Len(items) :
                           /\ items[i].name = k
                           /\ \A j \in (i + 1)..Len(items) : items[j].name # k]])

RECURSIVE Flatten(_)
Flatten(seqs) == IF seqs = <<>> THEN <<>> ELSE Head(seqs) \o Flatten(Tail(seqs))

RangeOf(s) == {s[i] : i \in 1..Len(s)}

-----------------------------------------------------------------------------
(* fixed_resolver.py *)

clean_type_name(name) ==
    IF ~Truthy(name) THEN <<>> ELSE Replace(name, "diggs:")

\* A complexType node, as the finders of the resolver see it:
\*   derivation  "extension" | "restriction" | "none": the xs:extension or
\*               xs:restriction found under the node
\*   base        that node's base attribute (None when absent)
\*   groups      the xs:sequence / xs:choice nodes under the node the local
\*               elements are read from, in document order, each with its
\*               direct xs:element children
\*   attrs       the xs:attribute nodes anywhere under the complexType
get_base_type_name(complex_type) ==
    IF complex_type.derivation \in {"extension", "restriction"}
       /\ Truthy(complex_type.base)
    THEN clean_type_name(complex_type.base)
    ELSE None

elem_info(elem) ==
    [name      |-> IF Truthy(elem.name) THEN elem.name
                   ELSE clean_type_name(Get(elem.ref, <<>>)),
     type      |-> clean_type_name(Get(elem.type, <<>>)),
     minOccurs |-> Get(elem.minOccurs, Str("1")),
     maxOccurs |-> Get(elem.maxOccurs, Str("1"))]

\* elements.append(elem_info) unless an entry of that name is there already
RECURSIVE AppendUnique(_, _)
AppendUnique(elements, infos) ==
    IF infos = <<>> THEN elements
    ELSE CHOOSE result \in
             { AppendUnique(
                   IF \E i \in 1..Len(elements) : elements[i].name = e.name
                   THEN elements ELSE Append(elements, e),
                   rest) : e \in {Head(infos)}, rest \in {Tail(infos)} } : TRUE

GroupElems(groups, kind) ==
    Flatten([i \in 1..Len(SelectSeq(groups, LAMBDA g : g.kind = kind)) |->
        LET g == SelectSeq(groups, LAMBDA h : h.kind = kind)[i]
        IN  [j \in 1..Len(g.elems) |-> elem_info(g.elems[j])]])

extract_elements_from_node(groups) ==
    CHOOSE elements \in
        { AppendUnique(from_sequences, in_choices) :
            from_sequences \in { AppendUnique(<<>>, in_sequences) :
                                   in_sequences \in {GroupElems(groups, "sequence")} },
            in_choices \in {GroupElems(groups, "choice")} } : TRUE

extract_local_elements(complex_type) ==
    [elements     |-> extract_elements_from_node(complex_type.groups),
     is_extension |-> complex_type.derivation = "extension"]

\* The dict it returns is given as a one-entry sequence, None as <<>>.
resolve_attribute_ref(attr_ref, all_attrs) ==
    LET attr_name == Replace(Replace(Replace(attr_ref, "gml:"), "diggs:"), "xml:")
    IN  IF attr_name \in DOMAIN all_attrs
        THEN << [name |-> attr_ref,
                 type |-> clean_type_name(Get(all_attrs[attr_name].type, <<>>)),
                 use  |-> Str("optional")] >>
        ELSE <<>>

\* One pass of the loop of extract_local_attributes: what it appends.
attr_info(attr, all_attrs) ==
    IF Truthy(attr.ref)
    THEN LET resolved_attr == resolve_attribute_ref(clean_type_name(attr.ref), all_attrs)
         IN  IF resolved_attr = <<>> THEN <<>>
             ELSE IF Truthy(attr.use)
                  THEN << [resolved_attr[1] EXCEPT !.use = attr.use] >>
                  ELSE resolved_attr
    ELSE << [name |-> attr.name,
             type |-> clean_type_name(Get(attr.type, <<>>)),
             use  |-> Get(attr.use, Str("optional"))] >>

extract_local_attributes(complex_type, all_attrs) ==
    Flatten([i \in 1..Len(complex_type.attrs) |->
                attr_info(complex_type.attrs[i], all_attrs)])

RESOLVE_DEPTH_CAP == 20

\* {}, {}: the two dicts, and the order of their keys
EmptyModel ==
    [elements |-> EmptyDict, attributes |-> EmptyDict,
     element_keys |-> <<>>, attribute_keys |-> <<>>]

\* the keys of an OrderedDict after `for item in items: d[item['name']] = item`:
\* a key that is there keeps its place, a new one goes to the end
RECURSIVE KeysAfter(_, _)
KeysAfter(keys, items) ==
    IF items = <<>> THEN keys
    ELSE KeysAfter(IF \E i \in 1..Len(keys) : keys[i] = Head(items).name
                   THEN keys ELSE Append(keys, Head(items).name),
                   Tail(items))

lookup_name(type_name) == Replace(Replace(type_name, "gml:"), "diggs:")

\* The early returns of resolve_content_model, in the code's order.
ReturnsEmptyMutNoVisited(type_name, all_types, visited, depth) ==
    \/ depth > RESOLVE_DEPTH_CAP
    \/ StartsWith(type_name, "xs:") \/ type_name = <<>>
    \/ lookup_name(type_name) \notin DOMAIN all_types
ReturnsEmpty(type_name, all_types, visited, depth) ==
    \/ depth > RESOLVE_DEPTH_CAP
    \/ type_name \in visited
    \/ StartsWith(type_name, "xs:") \/ type_name = <<>>
    \/ lookup_name(type_name) \notin DOMAIN all_types

\* Whether the frame of complex_type resolves its base first, and what it
\* takes from it: "all" (extension), "attributes" (restriction), "none".
InheritsMutRestrictionAll(complex_type) ==
    IF Truthy(get_base_type_name(complex_type)) THEN "all" ELSE "none"
Inherits(complex_type) ==
    LET base_type_name == get_base_type_name(complex_type)
        is_extension   == extract_local_elements(complex_type).is_extension
    IN  IF is_extension /\ Truthy(base_type_name) THEN "all"
        ELSE IF Truthy(base_type_name) /\ ~is_extension THEN "attributes"
        ELSE "none"

\* What a frame returns, given what the resolution of its base returned.
Combine(complex_type, all_attrs, base_model) ==
    CHOOSE model \in
        { [elements   |-> PutAll(IF inh = "all" THEN base_model.elements ELSE EmptyDict,
                                 local_elements),
           attributes |-> PutAll(IF inh \in {"all", "attributes"}
                                 THEN base_model.attributes ELSE EmptyDict,
                                 local_attributes),
           element_keys |->
               KeysAfter(IF inh = "all" THEN base_model.element_keys ELSE <<>>,
                         local_elements),
           attribute_keys |->
               KeysAfter(IF inh \in {"all", "attributes"}
                         THEN base_model.attribute_keys ELSE <<>>,
                         local_attributes)] :
              local_elements   \in {extract_local_elements(complex_type).elements},
              local_attributes \in {extract_local_attributes(complex_type, all_attrs)},
              inh              \in {Inherits(complex_type)} } : TRUE

RECURSIVE resolve_content_model(_, _, _, _, _)
resolve_content_model(type_name, all_types, all_attrs, visited, depth) ==
    IF ReturnsEmpty(type_name, all_types, visited, depth) THEN EmptyModel
    ELSE LET complex_type == all_types[lookup_name(type_name)]
         IN  \* base_model is what the call on the base returned
             CHOOSE model \in
                 { Combine(complex_type, all_attrs, base_model) :
                     base_model \in
                       { IF Inherits(complex_type) = "none" THEN EmptyModel
                         ELSE resolve_content_model(get_base_type_name(complex_type),
                                  all_types, all_attrs, visited \cup {type_name},
                                  depth + 1) } } : TRUE

-----------------------------------------------------------------------------
(* diggs_compatibility_analyzer.py *)

\* The arrow of the f-strings of lines 286 and 530 is the token " -> ".

\* the token is a namespace prefix: it ends with a colon
IsPrefix(tok) == Len(tok) > 0 /\ SubSeq(tok, Len(tok), Len(tok)) = ":"

\* ':' in s
HasColon(s) == \E i \in 1..Len(s) : IsPrefix(s[i])

\* Code-point order of the name tokens in use, for sorted().
TokenOrder ==
    <<"2.6", "3.0", "@", "A", "B", "C", "D", "E", "G", "None", "P", "Q", "S",
      "a", "b", "c", "diggs:", "diggs_geo:", "eml:", "ext:", "glr:", "glrov:",
      "gml:", "id", "unknown:", "witsml:", "x", "xs:", "y">>
TokenRank(tok) ==
    IF \E i \in 1..Len(TokenOrder) : TokenOrder[i] = tok
    THEN CHOOSE i \in 1..Len(TokenOrder) : TokenOrder[i] = tok
    ELSE 0

RECURSIVE StrLess(_, _)
StrLess(s, t) ==
    IF t = <<>> THEN FALSE
    ELSE IF s = <<>> THEN TRUE
    ELSE IF Head(s) = Head(t) THEN StrLess(Tail(s), Tail(t))
    ELSE TokenRank(Head(s)) < TokenRank(Head(t))

\* What a call leaves when sorted() or join() raises TypeError.
TypeError == [raised |-> <<"TypeError">>]
Raised(result) == "raised" \in DOMAIN result

\* sorted(names) compares None with a str: '<' not supported
SortedRaises(names) == None \in names /\ Cardinality(names) > 1

\* sorted(names)
RECURSIVE Sorted(_)
Sorted(names) ==
    IF SortedRaises(names) THEN TypeError
    ELSE IF names = {} THEN <<>>
    ELSE LET least == CHOOSE n \in names : \A m \in names \ {n} : StrLess(n, m)
         IN  <<least>> \o Sorted(names \ {least})

\* A Python set of names is its hash table, slot |-> name.  probes gives, for
\* each name, the slots its hash visits in this process, the first being
\* hash & mask.  Tables of 8 slots: sets of at most 4 names.
Members(table) == {table[slot] : slot \in DOMAIN table}

\* s.add(name): the first free slot the hash of the name visits
SetAdd(table, name, probes) ==
    IF name \in Members(table) THEN table
    ELSE LET free  == {i \in 1..Len(probes[name]) : probes[name][i] \notin DOMAIN table}
             first == CHOOSE i \in free : \A j \in free : i <= j
         IN  (probes[name][first] :> name) @@ table

\* set(names): the names are added one after the other; names are the keys
\* of a dict in its order, or what the iteration of another set gives
RECURSIVE NameSet(_, _)
NameSet(names, probes) ==
    IF names = <<>> THEN EmptyDict
    ELSE CHOOSE s \in
             { SetAdd(table, names[Len(names)], probes) :
                 table \in {NameSet(SubSeq(names, 1, Len(names) - 1), probes)} } : TRUE

\* for name in s / list(s): the names by slot
Iter(table) ==
    CHOOSE names \in
        { [i \in 1..Cardinality(DOMAIN s) |->
              s[CHOOSE slot \in DOMAIN s :
                   Cardinality({t \in DOMAIN s : t < slot}) = i - 1]] :
            s \in {table} } : TRUE

\* the names of one set that are (keep) or are not (~keep) in another, added
\* to a new set in the order of the iteration
Filtered(iterated, other, keep, probes) ==
    NameSet(SelectSeq(Iter(iterated), LAMBDA n : (n \in Members(other)) = keep),
            probes)

\* a & b: the smaller set is iterated, b when they are as large
Intersection(so, other, probes) ==
    CHOOSE r \in
        { IF Cardinality(DOMAIN b) > Cardinality(DOMAIN a)
          THEN Filtered(a, b, TRUE, probes) ELSE Filtered(b, a, TRUE, probes) :
            a \in {so}, b \in {other} } : TRUE

\* seq[:n]
Take(seq, n) == SubSeq(seq, 1, IF Len(seq) < n THEN Len(seq) ELSE n)

\* sep.join(strs) finds an item that is no str: expected str instance
JoinRaises(strs) == \E i \in 1..Len(strs) : strs[i] = None

\* sep.join(strs)
RECURSIVE Join(_, _)
Join(strs, sep) ==
    IF JoinRaises(strs) THEN TypeError
    ELSE IF strs = <<>> THEN <<>>
    ELSE IF Len(strs) = 1 THEN strs[1]
    ELSE strs[1] \o <<sep>> \o Join(Tail(strs), sep)

normalize_type_name(type_name) ==
    IF ~Truthy(type_name) THEN <<>> ELSE clean_type_name(type_name)

builtins ==
    {"string", "double", "float", "integer", "int", "long", "short", "byte",
     "boolean", "decimal", "date", "dateTime", "time", "anyURI", "QName",
     "anyType", "anySimpleType"}

is_builtin_typeMutNever(type_name) == FALSE
is_builtin_type(type_name) ==
    IF ~Truthy(type_name) THEN FALSE
    ELSE IF StartsWith(type_name, "xs:") THEN TRUE
    ELSE LET colons    == {i \in 1..Len(type_name) : IsPrefix(type_name[i])}
             \* type_name.split(':', 1)[1] if ':' in type_name else type_name
             bare_name == IF HasColon(type_name)
                          THEN LET first == CHOOSE i \in colons : \A j \in colons : i <= j
                               IN  SubSeq(type_name, first + 1, Len(type_name))
                          ELSE type_name
         IN  Len(bare_name) = 1 /\ bare_name[1] \in builtins

\* str.isdigit() and int() on the cardinality tokens in use
DigitValue ==
    [tok \in {"0", "1", "2", "999999", "1000000"} |->
        CASE tok = "0" -> 0 [] tok = "1" -> 1 [] tok = "2" -> 2
          [] tok = "999999" -> 999999 [] tok = "1000000" -> 1000000]
isdigit(s) == Len(s) = 1 /\ s[1] \in DOMAIN DigitValue
int(s) == DigitValue[s[1]]

UNBOUNDED == 999999
COMPAT_DEPTH_CAP == 5

\* lines 356-357 / 510-511
min_occurs(e) == IF isdigit(e.minOccurs) THEN int(e.minOccurs) ELSE 0
\* lines 358-359 / 512-513
max_occurs(e) ==
    IF e.maxOccurs = Str("unbounded") THEN UNBOUNDED
    ELSE IF isdigit(e.maxOccurs) THEN int(e.maxOccurs) ELSE 1

Result(ok, reason) == [ok |-> ok, reason |-> reason]

\* self.type_compat_cache[cache_key] = result; return result
\* st is the cache with the log of the writes made to it.
Store(st, cache_key, result) ==
    [cache  |-> Overlay(st.cache, [k \in {cache_key} |-> result]),
     writes |-> Append(st.writes, <<cache_key, result>>),
     result |-> result]

Return(st, result) == [cache |-> st.cache, writes |-> st.writes, result |-> result]

\* a - b: the names of a that are not in b, added to a new set in the order
\* of the iteration; a copy of a without them when a is much the larger
DifferenceMutEmpty(so, other, probes) == EmptyDict
Difference(so, other, probes) ==
    CHOOSE r \in
        { IF (Cardinality(DOMAIN a) \div 4) > Cardinality(DOMAIN b)
          THEN [slot \in {t \in DOMAIN a : a[t] \notin Members(b)} |-> a[slot]]
          ELSE Filtered(a, b, FALSE, probes) :
            a \in {so}, b \in {other} } : TRUE

\* lines 334-340: the first new element, in iteration order, that is required
NewRequiredElementsMutNone(cm_old, cm_new, order) == <<>>
NewRequiredElements(cm_old, cm_new, order) ==
    SelectSeq(Iter(Difference(NameSet(cm_new.element_keys, order),
                              NameSet(cm_old.element_keys, order), order)),
              LAMBDA n : cm_new.elements[n].minOccurs # Str("0"))

\* lines 342-348
NewRequiredAttributes(cm_old, cm_new, order) ==
    SelectSeq(Iter(Difference(NameSet(cm_new.attribute_keys, order),
                              NameSet(cm_old.attribute_keys, order), order)),
              LAMBDA n : cm_new.attributes[n].use = Str("required"))

\* line 361
CardinalityRestricted(e_old, e_new) ==
    min_occurs(e_new) > min_occurs(e_old) \/ max_occurs(e_new) < max_occurs(e_old)

\* line 367 / 525
TypeChangedMutNever(e_old, e_new) == FALSE
TypeChanged(e_old, e_new) == e_old.type # e_new.type /\ Truthy(e_new.type)

\* lines 376-385
AttributesNowRequiredMutNone(cm_old, cm_new, order) == <<>>
AttributesNowRequired(cm_old, cm_new, order) ==
    SelectSeq(Iter(Intersection(NameSet(cm_old.attribute_keys, order),
                                NameSet(cm_new.attribute_keys, order), order)),
              LAMBDA n : /\ cm_old.attributes[n].use = Str("optional")
                         /\ cm_new.attributes[n].use = Str("required"))

RECURSIVE check_type_content_compatibility(_, _, _, _, _)
RECURSIVE CommonElementsLoop(_, _, _, _, _, _)

\* lines 352-374: the loop over common_elems; names is what is left of it.
\* Returns st with result.ok = FALSE and the reason when a pass returns,
\* with result.ok = TRUE when the loop runs to its end, with TypeError when
\* the nested call raised it.
CommonElementsLoop(names, cm_old, cm_new, depth, st, order) ==
    IF names = <<>> THEN Return(st, Result(TRUE, <<>>))
    ELSE LET elem_name == Head(names)
             e_old == cm_old.elements[elem_name]
             e_new == cm_new.elements[elem_name]
         IN  IF CardinalityRestricted(e_old, e_new)
             THEN Return(st, Result(FALSE,
                      <<"Cardinality restricted on element: ">> \o elem_name))
             ELSE IF TypeChanged(e_old, e_new)
             THEN LET nested == check_type_content_compatibility(
                                    e_old.type, e_new.type, depth + 1, st, order)
                  IN  IF Raised(nested.result) THEN nested
                      ELSE IF ~nested.result.ok
                      THEN Return(nested, Result(FALSE,
                               <<"Incompatible type change on ">> \o elem_name
                               \o <<": ">> \o nested.result.reason))
                      ELSE CommonElementsLoop(Tail(names), cm_old, cm_new,
                                              depth, nested, order)
             ELSE CommonElementsLoop(Tail(names), cm_old, cm_new, depth, st, order)

\* lines 321-330: f"{what}{', '.join(sorted(list(missing)[:3]))}", or TypeError
\* when one of the three names is None
MissingReason(what, missing) ==
    LET shown == Take(Iter(missing), 3)
    IN  IF SortedRaises(RangeOf(shown)) \/ JoinRaises(shown) THEN TypeError
        ELSE Result(FALSE, <<what>> \o Join(Sorted(RangeOf(shown)), ", "))

\* st: the cache on entry and the writes logged so far; order: the slots the
\* names hash to in this process.  Returns the cache, the log and the result;
\* an exception leaves the result TypeError and writes nothing.
\* lines 267-271: rule 1 compares the normalized names
TypesIdenticalMutNever(old_normalized, new_normalized) == FALSE
TypesIdentical(old_normalized, new_normalized) == old_normalized = new_normalized

check_type_content_compatibility(old_type, new_type, depth, st, order) ==
    LET cache_key      == <<old_type, new_type>>
        old_normalized == normalize_type_name(old_type)
        new_normalized == normalize_type_name(new_type)
    IN
    IF depth > COMPAT_DEPTH_CAP
    THEN Return(st, Result(TRUE, <<"Max recursion depth reached">>))
    ELSE IF cache_key \in DOMAIN st.cache
    THEN Return(st, st.cache[cache_key])
    ELSE IF TypesIdentical(old_normalized, new_normalized)
    THEN Store(st, cache_key, Result(TRUE, <<"Types identical">>))
    ELSE IF /\ old_normalized \in DOMAIN type_mappings
            /\ normalize_type_name(type_mappings[old_normalized]) = new_normalized
    THEN Store(st, cache_key, Result(TRUE, <<"Known mapping">>))
    ELSE IF is_builtin_type(old_type) \/ is_builtin_type(new_type)
    THEN Store(st, cache_key,
             IF old_normalized = new_normalized
             THEN Result(TRUE, <<"Same built-in type">>)
             ELSE Result(FALSE, <<"Built-in type change: ">> \o old_normalized
                                \o <<" -> ">> \o new_normalized))
    ELSE IF old_normalized \notin DOMAIN old_types
    THEN Store(st, cache_key, Result(FALSE,
             <<"Old type ">> \o old_normalized \o <<" not found in old schema">>))
    ELSE IF new_normalized \notin DOMAIN new_types
    THEN Store(st, cache_key, Result(FALSE,
             <<"New type ">> \o new_normalized \o <<" not found in new schema">>))
    ELSE
    LET cm_old == resolve_content_model(old_normalized, old_types, old_attrs, {}, 0)
        cm_new == resolve_content_model(new_normalized, new_types, new_attrs, {}, 0)
        missing_elems == Difference(NameSet(cm_old.element_keys, order),
                                    NameSet(cm_new.element_keys, order), order)
        missing_attrs == Difference(NameSet(cm_old.attribute_keys, order),
                                    NameSet(cm_new.attribute_keys, order), order)
        new_required  == NewRequiredElements(cm_old, cm_new, order)
        new_req_attrs == NewRequiredAttributes(cm_old, cm_new, order)
    IN
    IF missing_elems # EmptyDict
    THEN IF Raised(MissingReason("Missing elements: ", missing_elems))
         THEN Return(st, TypeError)
         ELSE Store(st, cache_key, MissingReason("Missing elements: ", missing_elems))
    ELSE IF missing_attrs # EmptyDict
    THEN IF Raised(MissingReason("Missing attributes: ", missing_attrs))
         THEN Return(st, TypeError)
         ELSE Store(st, cache_key, MissingReason("Missing attributes: ", missing_attrs))
    ELSE IF new_required # <<>>
    THEN Store(st, cache_key, Result(FALSE,
             <<"New required element: ">> \o Head(new_required)))
    ELSE IF new_req_attrs # <<>>
    THEN Store(st, cache_key, Result(FALSE,
             <<"New required attribute: ">> \o Head(new_req_attrs)))
    ELSE
    LET loop == CommonElementsLoop(
                    Iter(Intersection(NameSet(cm_old.element_keys, order),
                                      NameSet(cm_new.element_keys, order), order)),
                    cm_old, cm_new, depth, st, order)
        now_required == AttributesNowRequired(cm_old, cm_new, order)
    IN
    IF Raised(loop.result) THEN loop
    ELSE IF ~loop.result.ok
    THEN Store(loop, cache_key, loop.result)
    ELSE IF now_required # <<>>
    THEN Store(loop, cache_key, Result(FALSE,
             <<"Attribute now required: ">> \o Head(now_required)))
    ELSE Store(loop, cache_key, Result(TRUE, <<"Content models compatible">>))

is_type_change_compatible(old_type, new_type, st, order) ==
    LET old_normalized == normalize_type_name(old_type)
        new_normalized == normalize_type_name(new_type)
    IN  IF ~Truthy(old_type) \/ ~Truthy(new_type)
        THEN Return(st, Result(TRUE, <<"Empty type">>))
        ELSE IF old_normalized = new_normalized
        THEN Return(st, Result(TRUE, <<"Types identical">>))
        ELSE IF /\ old_normalized \in DOMAIN type_mappings
                /\ normalize_type_name(type_mappings[old_normalized]) = new_normalized
        THEN Return(st, Result(TRUE, <<"Known mapping">>))
        ELSE check_type_content_compatibility(old_type, new_type, 0, st, order)

format_cardinalityMutMinOnly(min_occ, max_occ) == <<"(">> \o min_occ \o <<")">>
format_cardinality(min_occ, max_occ) ==
    <<"(">> \o min_occ \o <<"..">> \o max_occ \o <<")">>

\* result['notes'] += f'; {note}' if result['notes'] else note
AddNote(notes, note) == IF notes # <<>> THEN notes \o <<"; ">> \o note ELSE note

\* A pass of one of the loops of compare_type: what it appends to a list of
\* the record, the note it adds, and whether it sets compatible to 'No'.
Pass(field, entry, note) == [field |-> field, entry |-> entry, note |-> note]

RECURSIVE ApplyPasses(_, _)
ApplyPasses(result, passes) ==
    IF passes = <<>> THEN result
    ELSE LET p  == Head(passes)
             r1 == CASE p.field = "new_elements" ->
                        [result EXCEPT !.new_elements = Append(@, p.entry)]
                     [] p.field = "missing_elements" ->
                        [result EXCEPT !.missing_elements = Append(@, p.entry)]
                     [] p.field = "expanded_cardinality" ->
                        [result EXCEPT !.expanded_cardinality = Append(@, p.entry)]
                     [] p.field = "restricted_cardinality" ->
                        [result EXCEPT !.restricted_cardinality = Append(@, p.entry)]
                     [] p.field = "type_changes" ->
                        [result EXCEPT !.type_changes = Append(@, p.entry)]
                     [] OTHER -> result
             r2 == IF p.note = <<>> THEN r1
                   ELSE [r1 EXCEPT !.compatible = Str("No"),
                                   !.notes = AddNote(@, p.note)]
         IN  ApplyPasses(r2, Tail(passes))

\* lines 474-481
NewElementPass(cm_new, elem_name) ==
    LET elem == cm_new.elements[elem_name]
    IN  Pass("new_elements",
             elem_name \o format_cardinality(elem.minOccurs, elem.maxOccurs),
             IF elem.minOccurs # Str("0")
             THEN <<"New required element: ">> \o elem_name ELSE <<>>)

\* lines 483-489
NewAttributePass(cm_new, attr_name) ==
    LET attr == cm_new.attributes[attr_name]
    IN  Pass("new_elements",
             <<"@">> \o attr_name \o <<"(">> \o attr.use \o <<")">>,
             IF attr.use = Str("required")
             THEN <<"New required attribute: ">> \o attr_name ELSE <<>>)

\* lines 492-496
MissingElementPass(elem_name) ==
    Pass("missing_elements", elem_name, <<"Element removed: ">> \o elem_name)

\* lines 498-502
MissingAttributePass(attr_name) ==
    Pass("missing_elements", <<"@">> \o attr_name,
         <<"Attribute removed: ">> \o attr_name)

\* lines 515-522: the cardinality branch of a common element
CardinalityPasses(elem_name, e_old, e_new) ==
    LET card == format_cardinality(e_new.minOccurs, e_new.maxOccurs)
    IN  IF min_occurs(e_new) < min_occurs(e_old) \/ max_occurs(e_new) > max_occurs(e_old)
        THEN << Pass("expanded_cardinality", elem_name \o card, <<>>) >>
        ELSE IF min_occurs(e_new) > min_occurs(e_old) \/ max_occurs(e_new) < max_occurs(e_old)
        THEN << Pass("restricted_cardinality", elem_name \o card,
                     <<"Cardinality restricted: ">> \o elem_name) >>
        ELSE <<>>

\* lines 530-537
TypeChangePass(elem_name, e_old, e_new, compat) ==
    LET type_note == elem_name \o <<": ">> \o e_old.type \o <<" -> ">> \o e_new.type
    IN  IF compat.ok
        THEN Pass("type_changes", type_note \o <<" [OK]">>, <<>>)
        ELSE Pass("type_changes",
                  type_note \o <<" [INCOMPATIBLE: ">> \o compat.reason \o <<"]">>,
                  <<"Incompatible type change: ">> \o elem_name \o <<" (">>
                  \o compat.reason \o <<")">>)

\* lines 541-550
AttributeUsePasses(attr_name, a_old, a_new) ==
    IF a_old.use = Str("required") /\ a_new.use = Str("optional")
    THEN << Pass("expanded_cardinality", <<"@">> \o attr_name \o <<"(optional)">>, <<>>) >>
    ELSE IF a_old.use = Str("optional") /\ a_new.use = Str("required")
    THEN << Pass("restricted_cardinality", <<"@">> \o attr_name \o <<"(required)">>,
                 <<"Attribute now required: ">> \o attr_name) >>
    ELSE <<>>

\* lines 524-537: the type change of one common element, once
\* is_type_change_compatible has returned compat
RecordTypeChange(elem_name, e_old, e_new, result, compat) ==
    IF Raised(compat.result) THEN compat
    ELSE Return(compat, ApplyPasses(result,
                    << TypeChangePass(elem_name, e_old, e_new, compat.result) >>))

\* lines 507-537: one pass of the loop over sorted(common_elems);
\* st.result is the record
CompareElement(elem_name, e_old, e_new, st, order) ==
    IF TypeChanged(e_old, e_new)
    THEN RecordTypeChange(elem_name, e_old, e_new,
             ApplyPasses(st.result, CardinalityPasses(elem_name, e_old, e_new)),
             is_type_change_compatible(e_old.type, e_new.type, st, order))
    ELSE Return(st, ApplyPasses(st.result, CardinalityPasses(elem_name, e_old, e_new)))

\* lines 504-537
RECURSIVE CompareCommonElements(_, _, _, _, _)
CompareCommonElements(names, cm_old, cm_new, st, order) ==
    IF names = <<>> \/ Raised(st.result) THEN st
    ELSE CompareCommonElements(Tail(names), cm_old, cm_new,
             CompareElement(Head(names), cm_old.elements[Head(names)],
                            cm_new.elements[Head(names)], st, order),
             order)

\* lines 473-502: the passes of the four loops over new and missing members
NewElementPasses(names, cm_new) ==
    [i \in 1..Len(names) |-> NewElementPass(cm_new, names[i])]
NewAttributePasses(names, cm_new) ==
    [i \in 1..Len(names) |-> NewAttributePass(cm_new, names[i])]
MissingElementPasses(names) ==
    [i \in 1..Len(names) |-> MissingElementPass(names[i])]
MissingAttributePasses(names) ==
    [i \in 1..Len(names) |-> MissingAttributePass(names[i])]

MemberPasses(cm_old, cm_new) ==
    NewElementPasses(Sorted(DOMAIN cm_new.elements \ DOMAIN cm_old.elements), cm_new)
    \o NewAttributePasses(Sorted(DOMAIN cm_new.attributes \ DOMAIN cm_old.attributes), cm_new)
    \o MissingElementPasses(Sorted(DOMAIN cm_old.elements \ DOMAIN cm_new.elements))
    \o MissingAttributePasses(Sorted(DOMAIN cm_old.attributes \ DOMAIN cm_new.attributes))

\* lines 539-550
CommonAttributePasses(names, cm_old, cm_new) ==
    Flatten([i \in 1..Len(names) |->
        AttributeUsePasses(names[i], cm_old.attributes[names[i]],
                           cm_new.attributes[names[i]])])

\* lines 552-554
FinalNote(result) ==
    IF result.compatible = Str("Yes") /\ result.base_changed # <<>>
    THEN [result EXCEPT !.notes =
            <<"Base type changed but content model compatible (architectural refactoring)">>]
    ELSE result

\* lines 539-556, st being what the loop over the common elements left
CompareCommonAttributes(cm_old, cm_new, st) ==
    IF Raised(st.result) THEN st
    ELSE IF SortedRaises(DOMAIN cm_old.attributes \cap DOMAIN cm_new.attributes)
    THEN Return(st, TypeError)
    ELSE Return(st, FinalNote(ApplyPasses(st.result,
             CommonAttributePasses(
                 Sorted(DOMAIN cm_old.attributes \cap DOMAIN cm_new.attributes),
                 cm_old, cm_new))))

\* lines 468-556, result being the record as lines 423-458 leave it
CompareModels(result, cm_old, cm_new, st, order) ==
    \* one of the sorted() of lines 475-505 raises TypeError
    IF \/ SortedRaises(DOMAIN cm_new.elements \ DOMAIN cm_old.elements)
       \/ SortedRaises(DOMAIN cm_new.attributes \ DOMAIN cm_old.attributes)
       \/ SortedRaises(DOMAIN cm_old.elements \ DOMAIN cm_new.elements)
       \/ SortedRaises(DOMAIN cm_old.attributes \ DOMAIN cm_new.attributes)
       \/ SortedRaises(DOMAIN cm_old.elements \cap DOMAIN cm_new.elements)
    THEN Return(st, TypeError)
    ELSE CompareCommonAttributes(cm_old, cm_new,
             CompareCommonElements(
                 Sorted(DOMAIN cm_old.elements \cap DOMAIN cm_new.elements),
                 cm_old, cm_new,
                 Return(st, ApplyPasses(result, MemberPasses(cm_old, cm_new))),
                 order))

\* lines 423-435
InitialRecord(qualified_name) ==
    [name                   |-> qualified_name,
     type_removed           |-> <<>>,
     base_changed           |-> <<>>,
     structure_changes      |-> <<>>,
     new_elements           |-> <<>>,
     missing_elements       |-> <<>>,
     expanded_cardinality   |-> <<>>,
     restricted_cardinality |-> <<>>,
     type_changes           |-> <<>>,
     notes                  |-> <<>>,
     compatible             |-> Str("Yes")]

\* lines 440-444
TypeRemoved(result) ==
    [result EXCEPT !.type_removed = Str("Yes"),
                   !.compatible = Str("No"),
                   !.notes = <<"Type not found in new version">>]

\* lines 446-450
Renamed(result, qualified_name, mapped_name) ==
    IF Truthy(mapped_name)
    THEN [result EXCEPT
            !.type_removed = <<"Renamed to: ">> \o mapped_name,
            !.notes = <<"Type renamed from ">> \o qualified_name
                      \o <<" to ">> \o mapped_name]
    ELSE [result EXCEPT !.type_removed = Str("No")]

\* lines 452-458
BaseChanged(result, base_old, base_new) ==
    IF base_old # base_new /\ Truthy(base_new)
    THEN [result EXCEPT !.base_changed =
            base_new \o <<" (was: ">>
            \o (IF Truthy(base_old) THEN base_old ELSE <<"none">>) \o <<")">>]
    ELSE result

\* lines 437-556 with the type to compare with looked up under target
CompareWith(qualified_name, mapped_name, target, st, order) ==
    IF target \notin DOMAIN new_types
    THEN Return(st, TypeRemoved(InitialRecord(qualified_name)))
    ELSE CompareModels(
             BaseChanged(
                 Renamed(InitialRecord(qualified_name), qualified_name, mapped_name),
                 get_base_type_name(old_types[qualified_name]),
                 get_base_type_name(new_types[target])),
             resolve_content_model(qualified_name, old_types, old_attrs, {}, 0),
             resolve_content_model(target, new_types, new_attrs, {}, 0),
             st, order)

compare_type(qualified_name, mapped_name, st, order) ==
    CompareWith(qualified_name, mapped_name,
                IF Truthy(mapped_name) THEN mapped_name ELSE qualified_name,
                st, order)

-----------------------------------------------------------------------------
(* resolve_content_model as the recursion it is: one frame per call.  The  *)
(* top frame of rs_stack is the call being entered (rs_pc = "enter") or    *)
(* the call that has just got rs_ret back from its base (rs_pc = "return").*)

Frame(type_name, visited, depth) ==
    [type_name |-> type_name, visited |-> visited, depth |-> depth]

Top == rs_stack[Len(rs_stack)]
Pop == SubSeq(rs_stack, 1, Len(rs_stack) - 1)

ResolveUnchanged ==
    UNCHANGED <<old_dir, new_dir, mapping_file, old_simpletypes, new_simpletypes,
                old_types, new_types, old_attrs, new_attrs, type_mappings,
                type_compat_cache, set_order, last, an_pc,
                ck_stack, ck_ret, ck_pc, ck_calls>>

\* lines 178-193: one of the early returns
ResolveEnterEmpty ==
    /\ rs_pc = "enter"
    /\ ReturnsEmpty(Top.type_name, old_types, Top.visited, Top.depth)
    /\ rs_ret' = EmptyModel
    /\ rs_stack' = Pop
    /\ rs_pc' = "return"
    /\ ResolveUnchanged

\* lines 195-225 for a type without a base to resolve
ResolveEnterLocal ==
    /\ rs_pc = "enter"
    /\ ~ReturnsEmpty(Top.type_name, old_types, Top.visited, Top.depth)
    /\ LET complex_type == old_types[lookup_name(Top.type_name)]
       IN  /\ Inherits(complex_type) = "none"
           /\ rs_ret' = Combine(complex_type, old_attrs, EmptyModel)
    /\ rs_stack' = Pop
    /\ rs_pc' = "return"
    /\ ResolveUnchanged

\* lines 203-206 and 211-214: the recursive call on the base
ResolveEnterBase ==
    /\ rs_pc = "enter"
    /\ ~ReturnsEmpty(Top.type_name, old_types, Top.visited, Top.depth)
    /\ LET complex_type == old_types[lookup_name(Top.type_name)]
       IN  /\ Inherits(complex_type) # "none"
           /\ rs_stack' = Append(rs_stack,
                  Frame(get_base_type_name(complex_type),
                        Top.visited \cup {Top.type_name}, Top.depth + 1))
    /\ UNCHANGED <<rs_ret, rs_pc>>
    /\ ResolveUnchanged

\* lines 207-225 of the caller, once its base has been resolved
ResolveReturn ==
    /\ rs_pc = "return"
    /\ rs_stack # <<>>
    /\ rs_ret' = Combine(old_types[lookup_name(Top.type_name)], old_attrs, rs_ret)
    /\ rs_stack' = Pop
    /\ UNCHANGED rs_pc
    /\ ResolveUnchanged

\* the outermost call has returned
ResolveDone ==
    /\ rs_pc = "return"
    /\ rs_stack = <<>>
    /\ rs_pc' = "done"
    /\ UNCHANGED <<rs_stack, rs_ret>>
    /\ ResolveUnchanged

-----------------------------------------------------------------------------
(* Inputs of the resolver *)

MaxChain == 23

XsElement(name, type, minOccurs, maxOccurs) ==
    [name |-> name, ref |-> None, type |-> type,
     minOccurs |-> minOccurs, maxOccurs |-> maxOccurs]

XsAttribute(name, ref, use) ==
    [name |-> name, ref |-> ref, type |-> <<"xs:", "string">>, use |-> use]

XsGroup(kind, elems) == [kind |-> kind, elems |-> elems]

XsComplexType(derivation, base, groups, attrs) ==
    [derivation |-> derivation, base |-> base, groups |-> groups, attrs |-> attrs]

TypeA == <<"eml:", "A">>
TypeB == <<"eml:", "B">>
TypeP == <<"diggs:", "P">>

\* the global attribute declarations of the schema family
GlobalAttrs == [k \in {<<"id">>} |-> XsAttribute(<<"id">>, None, Str("required"))]

BaseChoices ==
    { <<"none", None>>, <<"extension", None>>,
      <<"extension", TypeA>>, <<"extension", TypeB>>,
      <<"restriction", TypeA>>, <<"restriction", TypeB>>,
      <<"extension", TypeP>> }

GroupChoices ==
    { <<>>,
      << XsGroup("sequence", << XsElement(<<"a">>, <<"xs:", "string">>, None, None) >>) >>,
      << XsGroup("choice",   << XsElement(<<"b">>, TypeB, Str("0"), Str("unbounded")) >>),
         XsGroup("sequence", << XsElement(<<"a">>, TypeA, Str("0"), None),
                                XsElement(<<"a">>, TypeB, None, None) >>) >> }

AttrChoices ==
    { <<>>,
      << XsAttribute(<<"x">>, None, Str("required")) >>,
      << XsAttribute(None, <<"gml:", "id">>, None),
         XsAttribute(<<"x">>, None, None) >> }

SmallTypes ==
    { XsComplexType(b[1], b[2], g, a) :
        b \in BaseChoices, g \in GroupChoices, a \in AttrChoices }

\* two types that may extend or restrict each other or themselves
SmallRegistries == [ {TypeA, TypeB} -> SmallTypes ]

ChainType(i) == <<"eml:", ToString(i)>>

\* T1 -> T2 -> ... -> Tn by extension or restriction, Tn -> T1 too when
\* closed; every type declares element a with its own type and attribute y,
\* the last one also element b and attribute x
ChainRegistry(n, derivation, closed) ==
    [ k \in {ChainType(i) : i \in 1..n} |->
        LET i == CHOOSE j \in 1..n : ChainType(j) = k
        IN  XsComplexType(
              IF i < n \/ closed THEN derivation ELSE "none",
              IF i < n THEN ChainType(i + 1)
              ELSE IF closed THEN ChainType(1) ELSE None,
              << XsGroup("sequence",
                    << XsElement(<<"a">>, ChainType(i), None, None) >>
                    \o IF i = n
                       THEN << XsElement(<<"b">>, <<"xs:", "string">>, None, None) >>
                       ELSE <<>>) >>,
              IF i = n THEN << XsAttribute(<<"x">>, None, Str("required")) >>
              ELSE << XsAttribute(<<"y">>, None, Str("optional")) >>) ]

\* registries keyed by bare names (get_all_types), where a prefixed base
\* names the type that refers to it
BareRegistry ==
    [ k \in {<<"A">>} |->
        XsComplexType("extension", <<"gml:", "A">>,
            << XsGroup("sequence", << XsElement(<<"a">>, <<"xs:", "string">>, None, None) >>) >>,
            <<>>) ]

ChainInputs ==
    { <<ChainRegistry(n, d, c), ChainType(1)>> :
          n \in 1..MaxChain, d \in {"extension", "restriction"}, c \in BOOLEAN }
    \cup { <<BareRegistry, t>> : t \in { <<"A">>, <<"diggs:", "A">>, <<"xs:", "string">>, <<>> } }

ResolveInputs ==
    { <<r, t>> : r \in SmallRegistries, t \in {TypeA, TypeB} } \cup ChainInputs

\* the same two types with every way of deriving one from the other, each
\* with one sequence and one attribute
DerivationTypes ==
    { XsComplexType(b[1], b[2],
          << XsGroup("sequence", << XsElement(<<"a">>, <<"xs:", "string">>, None, None) >>) >>,
          << XsAttribute(<<"x">>, None, Str("required")) >>) : b \in BaseChoices }

TerminationInputs ==
    { <<r, t>> : r \in [ {TypeA, TypeB} -> DerivationTypes ], t \in {TypeA, TypeB, TypeP} }
    \cup ChainInputs

NoCall == [op |-> "none"]

\* no mapping file was given
NoMappingFile == [given |-> FALSE, exists |-> FALSE, decodes |-> FALSE, lines |-> <<>>]

\* an instance whose registries were filled in directly, not read from files
NoFiles ==
    /\ old_dir = <<>>
    /\ new_dir = <<>>
    /\ mapping_file = NoMappingFile
    /\ old_simpletypes = EmptyDict
    /\ new_simpletypes = EmptyDict
    /\ an_pc = "idle"

ResolveCall(in) ==
    /\ NoFiles
    /\ old_types = in[1]
    /\ old_attrs = GlobalAttrs
    /\ new_types = EmptyDict
    /\ new_attrs = EmptyDict
    /\ type_mappings = EmptyDict
    /\ type_compat_cache = EmptyDict
    /\ set_order = <<>>
    /\ last = [op |-> "resolve_content_model", type_name |-> in[2]]
    /\ rs_stack = << Frame(in[2], {}, 0) >>
    /\ rs_ret = EmptyModel
    /\ rs_pc = "enter"
    /\ CheckOff

InitResolve == \E in \in ResolveInputs : ResolveCall(in)

InitTermination == \E in \in TerminationInputs : ResolveCall(in)

NextResolve ==
    \/ ResolveEnterEmpty
    \/ ResolveEnterLocal
    \/ ResolveEnterBase
    \/ ResolveReturn
    \/ ResolveDone

SpecResolve == InitResolve /\ [][NextResolve]_vars

\* A Python call that has started runs to its return: the recursion is never
\* left waiting.
SpecTermination == InitTermination /\ [][NextResolve]_vars /\ WF_vars(NextResolve)

-----------------------------------------------------------------------------
(* Claims about resolve_content_model, checked under SpecResolve *)

\* The deepest depth at which resolving type_name makes a call.
RECURSIVE DeepestCall(_, _, _, _)
DeepestCall(type_name, all_types, visited, depth) ==
    IF ReturnsEmpty(type_name, all_types, visited, depth) THEN depth
    ELSE LET complex_type == all_types[lookup_name(type_name)]
         IN  IF Inherits(complex_type) = "none" THEN depth
             ELSE DeepestCall(get_base_type_name(complex_type), all_types,
                              visited \cup {type_name}, depth + 1)

\* frames whose early returns have all been passed
Entered(i) == i < Len(rs_stack) \/ (i = Len(rs_stack) /\ rs_pc = "return")

\* the frames above frame i that process the definition frame i looks up
SameDefinition(i) ==
    {j \in 1..(i - 1) : lookup_name(rs_stack[j].type_name)
                           = lookup_name(rs_stack[i].type_name)}

C2_PathInv ==
    /\ Len(rs_stack) <= RESOLVE_DEPTH_CAP + 2
    /\ \A i \in 1..Len(rs_stack) :
          /\ rs_stack[i].depth = i - 1
          /\ rs_stack[i].depth <= RESOLVE_DEPTH_CAP + 1
          /\ rs_stack[i].visited = {rs_stack[j].type_name : j \in 1..(i - 1)}
          /\ Entered(i) =>
                /\ rs_stack[i].depth <= RESOLVE_DEPTH_CAP
                /\ \A j \in 1..(i - 1) : rs_stack[j].type_name # rs_stack[i].type_name
                /\ Cardinality(SameDefinition(i)) <= 1

\* C2 as stated: no call of the recursion is deeper than the depth cap of 20,
\* and no type is entered again while it is on the current path.
C2_Original ==
    \A i \in 1..Len(rs_stack) :
        /\ rs_stack[i].depth <= RESOLVE_DEPTH_CAP
        /\ Entered(i) => SameDefinition(i) = {}

\* C2 (amended): resolve_content_model terminates for every type name and
\* registry, cyclic base chains included: every run of the recursion reaches
\* its final return; calls are made at depths 0 to 21, one past the depth cap
\* of 20, and a type is processed at depths 0 to 20 only; no type name, as
\* passed, is processed twice on one path, and a definition is processed
\* twice at most, the second time under another spelling of its name.
C2_Theorem == [](C2_PathInv) /\ <>(rs_pc = "done")

\* a type whose base chain leads back to itself has been resolved
C2_Witness ==
    /\ rs_pc = "done"
    /\ last.type_name = TypeA
    /\ Inherits(old_types[TypeA]) = "all"
    /\ get_base_type_name(old_types[TypeA]) = TypeB
    /\ Inherits(old_types[TypeB]) = "attributes"
    /\ get_base_type_name(old_types[TypeB]) = TypeA
    /\ DOMAIN rs_ret.elements # {}

\* The outermost call is over and was a call on a registered type that has
\* a base by `derivation` ("extension" or "restriction").
Resolved(derivation) ==
    /\ rs_pc = "done"
    /\ ~ReturnsEmpty(last.type_name, old_types, {}, 0)
    /\ old_types[lookup_name(last.type_name)].derivation = derivation
    /\ Truthy(get_base_type_name(old_types[lookup_name(last.type_name)]))

RootType == old_types[lookup_name(last.type_name)]
RootBase == get_base_type_name(RootType)

LocalElements == extract_local_elements(RootType).elements
LocalAttributes == extract_local_attributes(RootType, old_attrs)
NamesOf(items) == {items[i].name : i \in 1..Len(items)}
DefsOf(items, name) == {items[i] : i \in {j \in 1..Len(items) : items[j].name = name}}

\* `dict` is `base` with the members `items` laid over it
IsOverlay(dict, base, items) ==
    /\ DOMAIN dict = DOMAIN base \cup NamesOf(items)
    /\ \A k \in DOMAIN dict :
          IF k \in NamesOf(items) THEN dict[k] \in DefsOf(items, k)
          ELSE dict[k] = base[k]

\* the base resolved on its own, and as the recursion resolves it
BaseAlone == resolve_content_model(RootBase, old_types, old_attrs, {}, 0)
BaseOnPath == resolve_content_model(RootBase, old_types, old_attrs, {last.type_name}, 1)
CapReached == DeepestCall(last.type_name, old_types, {}, 0) > RESOLVE_DEPTH_CAP

\* C3 as stated: the resolved content model of a type that extends a base is
\* the base's resolved content model overlaid with the type's local members.
C3_Original ==
    Resolved("extension") =>
        /\ IsOverlay(rs_ret.elements, BaseAlone.elements, LocalElements)
        /\ IsOverlay(rs_ret.attributes, BaseAlone.attributes, LocalAttributes)

\* C3 (amended): the resolved content model of a type that extends a base is
\* what the base resolves to one call deeper on the same path, overlaid with the
\* type's local members; whenever the resolution of the type does not reach
\* the depth cap it is also the base's own resolved content model overlaid
\* with the type's local members.
C3_Theorem ==
    Resolved("extension") =>
        /\ IsOverlay(rs_ret.elements, BaseOnPath.elements, LocalElements)
        /\ IsOverlay(rs_ret.attributes, BaseOnPath.attributes, LocalAttributes)
        /\ ~CapReached =>
              /\ IsOverlay(rs_ret.elements, BaseAlone.elements, LocalElements)
              /\ IsOverlay(rs_ret.attributes, BaseAlone.attributes, LocalAttributes)

\* an extension that inherits one base element and replaces another
C3_Witness ==
    /\ Resolved("extension")
    /\ ~CapReached
    /\ \E k \in DOMAIN BaseAlone.elements : k \notin NamesOf(LocalElements)
    /\ \E k \in DOMAIN BaseAlone.elements \cap NamesOf(LocalElements) :
          rs_ret.elements[k] # BaseAlone.elements[k]
    /\ \E k \in DOMAIN BaseAlone.attributes : k \notin NamesOf(LocalAttributes)

\* C4 as stated: for a type that restricts a base the resolved elements are
\* exactly the local elements and the resolved attributes are the base's
\* resolved attributes overlaid with the local attributes.
C4_Original ==
    Resolved("restriction") =>
        /\ IsOverlay(rs_ret.elements, EmptyDict, LocalElements)
        /\ IsOverlay(rs_ret.attributes, BaseAlone.attributes, LocalAttributes)

\* C4 (amended): for a type that restricts a base the resolved elements are
\* exactly the local elements, and the resolved attributes are the attributes
\* the base resolves to one call deeper on the same path, overlaid with the
\* local attributes; whenever the resolution of the type does not reach the
\* depth cap they are also the base's own resolved attributes overlaid with
\* the local attributes.
C4_Theorem ==
    Resolved("restriction") =>
        /\ IsOverlay(rs_ret.elements, EmptyDict, LocalElements)
        /\ IsOverlay(rs_ret.attributes, BaseOnPath.attributes, LocalAttributes)
        /\ ~CapReached =>
              IsOverlay(rs_ret.attributes, BaseAlone.attributes, LocalAttributes)

\* a restriction whose base has an element and an attribute it does not restate
C4_Witness ==
    /\ Resolved("restriction")
    /\ ~CapReached
    /\ \E k \in DOMAIN BaseAlone.elements : k \notin DOMAIN rs_ret.elements
    /\ \E k \in DOMAIN BaseAlone.attributes :
          k \notin NamesOf(LocalAttributes) /\ k \in DOMAIN rs_ret.attributes
    /\ DOMAIN rs_ret.elements # {}

-----------------------------------------------------------------------------
(* The decision engine: top-level calls on one analyzer instance *)

TypeC == <<"eml:", "C">>
TypeD == <<"eml:", "D">>
XsString == <<"xs:", "string">>

\* element a of the old root type and of the new one
OldSlotA ==
    { <<>>,
      << XsElement(<<"a">>, TypeB, None, None) >>,
      << XsElement(<<"a">>, TypeB, Str("1"), Str("unbounded")) >>,
      << XsElement(<<"a">>, TypeB, Str("0"), Str("1")) >> }
NewSlotA ==
    { <<>>,
      << XsElement(<<"a">>, TypeD, None, None) >>,
      << XsElement(<<"a">>, TypeD, Str("0"), Str("1")) >>,
      << XsElement(<<"a">>, TypeD, Str("0"), Str("unbounded")) >>,
      << XsElement(<<"a">>, TypeD, Str("1"), Str("1000000")) >>,
      << XsElement(<<"a">>, TypeB, None, None) >>,
      << XsElement(<<"a">>, None, None, None) >> }

\* element b
OldSlotB == { <<>>, << XsElement(<<"b">>, XsString, None, None) >> }
NewSlotB ==
    { <<>>,
      << XsElement(<<"b">>, XsString, None, None) >>,
      << XsElement(<<"b">>, XsString, Str("0"), None) >> }

\* attribute x
SlotX ==
    { <<>>,
      << XsAttribute(<<"x">>, None, None) >>,
      << XsAttribute(<<"x">>, None, Str("required")) >> }

PlainType(a, b, x) ==
    XsComplexType("none", None, << XsGroup("sequence", a \o b) >>, x)

\* the type of element a in the old version, and what it may be in the new one
OldNested == PlainType(<< XsElement(<<"a">>, XsString, None, None) >>, <<>>, <<>>)
NewNested ==
    { OldNested,
      PlainType(<<>>, << XsElement(<<"b">>, XsString, Str("0"), None) >>, <<>>) }

OldRegistry(root) ==
    [k \in {TypeA, TypeB} |-> IF k = TypeA THEN root ELSE OldNested]

\* the new root type is there under its old name and under a new one
NewRegistry(root, nested) ==
    [k \in {TypeA, TypeC, TypeD} |-> IF k = TypeD THEN nested ELSE root]

\* The slots the member names hash to in a process: a before b, b before a.
Probes(a, b) == (<<"a">> :> a) @@ (<<"b">> :> b) @@ (<<"x">> :> <<2>>)
SetOrders == { Probes(<<0>>, <<1>>), Probes(<<1>>, <<0>>) }

\* a and b hash to one slot: the name added later goes to the slot before it,
\* so that a set made of the names of another iterates the other way round
CollidingOrders == { Probes(<<1, 0>>, <<1, 0>>) }

InitEngine ==
    /\ NoFiles
    /\ \E a \in OldSlotA, b \in OldSlotB, x \in SlotX :
          old_types = OldRegistry(PlainType(a, b, x))
    /\ \E a \in NewSlotA, b \in NewSlotB, x \in SlotX, nested \in NewNested :
          new_types = NewRegistry(PlainType(a, b, x), nested)
    /\ old_attrs = GlobalAttrs
    /\ new_attrs = GlobalAttrs
    /\ type_mappings = EmptyDict
    /\ type_compat_cache = EmptyDict
    /\ set_order \in SetOrders
    /\ last = NoCall
    /\ rs_stack = <<>>
    /\ rs_ret = EmptyModel
    /\ rs_pc = "off"
    /\ CheckOff

EngineUnchanged ==
    UNCHANGED <<old_dir, new_dir, mapping_file, old_simpletypes, new_simpletypes,
                old_types, new_types, old_attrs, new_attrs, type_mappings,
                set_order, rs_stack, rs_ret, rs_pc,
                ck_stack, ck_ret, ck_pc, ck_calls, an_pc>>

Fresh == [cache |-> type_compat_cache, writes |-> <<>>]

\* analyzer.check_type_content_compatibility(old_type, new_type)
CheckTypeContentCompatibility(old_type, new_type) ==
    LET ret == check_type_content_compatibility(old_type, new_type, 0, Fresh, set_order)
    IN  /\ type_compat_cache' = ret.cache
        /\ last' = [op |-> "check_type_content_compatibility",
                    old_type |-> old_type, new_type |-> new_type,
                    cache |-> type_compat_cache,
                    writes |-> ret.writes, result |-> ret.result]
        /\ EngineUnchanged

\* analyzer.compare_type(qualified_name, mapped_name)
CompareType(qualified_name, mapped_name) ==
    LET ret == compare_type(qualified_name, mapped_name, Fresh, set_order)
    IN  /\ qualified_name \in DOMAIN old_types
        /\ type_compat_cache' = ret.cache
        /\ last' = [op |-> "compare_type",
                    qualified_name |-> qualified_name, mapped_name |-> mapped_name,
                    cache |-> type_compat_cache,
                    writes |-> ret.writes, result |-> ret.result]
        /\ EngineUnchanged

CheckRoot   == CheckTypeContentCompatibility(TypeA, TypeC)
CheckNested == CheckTypeContentCompatibility(TypeB, TypeD)
CompareRoot == CompareType(TypeA, None)

Next ==
    \/ CheckRoot
    \/ CheckNested
    \/ CompareRoot

Spec == InitEngine /\ [][Next]_vars

-----------------------------------------------------------------------------
(* Claims about the decision engine, checked under Spec *)

IsCheck   == last.op = "check_type_content_compatibility"
IsCompare == last.op = "compare_type"

EmptyCache == [cache |-> EmptyDict, writes |-> <<>>]

\* the resolved content models the last call compared
OldModel ==
    resolve_content_model(
        IF IsCheck THEN normalize_type_name(last.old_type) ELSE last.qualified_name,
        old_types, old_attrs, {}, 0)
NewModel ==
    resolve_content_model(
        IF IsCheck THEN normalize_type_name(last.new_type)
        ELSE IF Truthy(last.mapped_name) THEN last.mapped_name ELSE last.qualified_name,
        new_types, new_attrs, {}, 0)

\* the last call was a compatibility check of two types that are in their registries and
\* that rules 1-3 (identical names, known mapping, built-in type) leave to
\* the structural comparison
Structural ==
    /\ IsCheck
    /\ normalize_type_name(last.old_type) # normalize_type_name(last.new_type)
    /\ ~(/\ normalize_type_name(last.old_type) \in DOMAIN type_mappings
         /\ normalize_type_name(type_mappings[normalize_type_name(last.old_type)])
              = normalize_type_name(last.new_type))
    /\ ~is_builtin_type(last.old_type) /\ ~is_builtin_type(last.new_type)
    /\ normalize_type_name(last.old_type) \in DOMAIN old_types
    /\ normalize_type_name(last.new_type) \in DOMAIN new_types

\* the last call was a compare_type of a type that is in both registries
Compared == IsCompare /\ last.result.type_removed # Str("Yes")

MissingElements   == DOMAIN OldModel.elements \ DOMAIN NewModel.elements
MissingAttributes == DOMAIN OldModel.attributes \ DOMAIN NewModel.attributes
AddedElements     == DOMAIN NewModel.elements \ DOMAIN OldModel.elements
AddedAttributes   == DOMAIN NewModel.attributes \ DOMAIN OldModel.attributes
CommonElements    == DOMAIN OldModel.elements \cap DOMAIN NewModel.elements
CommonAttributes  == DOMAIN OldModel.attributes \cap DOMAIN NewModel.attributes
MemberNames ==
    DOMAIN OldModel.elements \cup DOMAIN NewModel.elements
    \cup DOMAIN OldModel.attributes \cup DOMAIN NewModel.attributes

\* the text names the member: the name stands in it
Mentions(text, name) ==
    \E i \in 1..Len(text) : i + Len(name) - 1 <= Len(text)
                            /\ SubSeq(text, i, i + Len(name) - 1) = name

\* C1: for fixed registries, attribute tables and mapping, the verdict and
\* the reason check_type_content_compatibility returns for a pair of names
\* are those it returns for that pair under every iteration order of the
\* member-name sets and from an empty cache.
C1_Original ==
    IsCheck =>
        \A order \in SetOrders :
            check_type_content_compatibility(
                last.old_type, last.new_type, 0, EmptyCache, order).result
            = last.result

\* C5: when both types are in their registries and rules 1-3 do not apply, a
\* check of two types of which the old content model has an element or an
\* attribute the new one lacks returns incompatible, the reason names a
\* member that is missing and none that is not, and it names the missing
\* member when there is only one.
C5_Theorem ==
    (Structural /\ MissingElements \cup MissingAttributes # {}) =>
        /\ ~last.result.ok
        /\ \E m \in MissingElements \cup MissingAttributes :
              Mentions(last.result.reason, m)
        /\ \A n \in MemberNames \ (MissingElements \cup MissingAttributes) :
              ~Mentions(last.result.reason, n)
        /\ MissingElements # {} =>
              /\ StartsWith(last.result.reason, "Missing elements: ")
              /\ Cardinality(MissingElements) = 1 =>
                    \A m \in MissingElements : Mentions(last.result.reason, m)
        /\ MissingElements = {} =>
              /\ StartsWith(last.result.reason, "Missing attributes: ")
              /\ Cardinality(MissingAttributes) = 1 =>
                    \A m \in MissingAttributes : Mentions(last.result.reason, m)

\* both elements of the old type are gone, and an attribute too
C5_Witness ==
    /\ Structural
    /\ MissingElements = {<<"a">>, <<"b">>}
    /\ MissingAttributes = {<<"x">>}
    /\ last.result = Result(FALSE, <<"Missing elements: ", "a", ", ", "b">>)

\* the verdict of the last call: the bool of the compatibility check, compatible = 'Yes'
\* of the record
Verdict ==
    IF IsCheck THEN last.result.ok ELSE last.result.compatible = Str("Yes")

\* the text that says why: the reason of the compatibility check, the notes of the record
Why == IF IsCheck THEN last.result.reason ELSE last.result.notes

\* the cache the last call started from
Before == [cache |-> last.cache, writes |-> <<>>]

\* what the engine answers for the two types of a common element of the
\* last call
NestedResult(elem_name) ==
    IF IsCheck
    THEN check_type_content_compatibility(
             OldModel.elements[elem_name].type, NewModel.elements[elem_name].type,
             1, Before, set_order).result
    ELSE is_type_change_compatible(
             OldModel.elements[elem_name].type, NewModel.elements[elem_name].type,
             Before, set_order).result

TypeDiffers(elem_name) ==
    /\ OldModel.elements[elem_name].type # NewModel.elements[elem_name].type
    /\ NewModel.elements[elem_name].type # <<>>

Narrowed(elem_name) ==
    \/ min_occurs(NewModel.elements[elem_name]) > min_occurs(OldModel.elements[elem_name])
    \/ max_occurs(NewModel.elements[elem_name]) < max_occurs(OldModel.elements[elem_name])

NowRequired(attr_name) ==
    /\ OldModel.attributes[attr_name].use = Str("optional")
    /\ NewModel.attributes[attr_name].use = Str("required")

MandatoryElements ==
    {e \in AddedElements : NewModel.elements[e].minOccurs # Str("0")}
MandatoryAttributes ==
    {a \in AddedAttributes : NewModel.attributes[a].use = Str("required")}

\* a violation among the common elements
ElementViolation ==
    \E e \in CommonElements : Narrowed(e) \/ (TypeDiffers(e) /\ ~NestedResult(e).ok)

\* a violation that is not a new member
OtherViolation ==
    \/ MissingElements \cup MissingAttributes # {}
    \/ ElementViolation
    \/ \E a \in CommonAttributes : NowRequired(a)

\* C6: a member present only in the new content model makes the comparison
\* incompatible exactly when it is mandatory, in the compatibility check and in the record
\* of compare_type: with a new element of minOccurs other than 0 or a new
\* required attribute the verdict is incompatible; when every new member is
\* an element of minOccurs 0 or an attribute that is not required and nothing
\* else is violated, the verdict is compatible.
C6_Theorem ==
    (Structural \/ Compared) =>
        /\ MandatoryElements \cup MandatoryAttributes # {} => ~Verdict
        /\ (/\ AddedElements \cup AddedAttributes # {}
            /\ MandatoryElements \cup MandatoryAttributes = {}
            /\ ~OtherViolation) => Verdict
        /\ (IsCompare /\ MandatoryElements \cup MandatoryAttributes # {}) =>
              \A m \in MandatoryElements \cup MandatoryAttributes : Mentions(Why, m)
        /\ (IsCheck /\ ~Verdict /\ MissingElements \cup MissingAttributes = {}
                    /\ MandatoryElements \cup MandatoryAttributes # {}) =>
              /\ \E m \in MandatoryElements \cup MandatoryAttributes : Mentions(Why, m)
              /\ \/ StartsWith(Why, "New required element: ")
                 \/ StartsWith(Why, "New required attribute: ")

\* a compatibility check of a new type that adds an optional element and an optional
\* attribute to an otherwise compatible old type
C6_Witness ==
    /\ Structural
    /\ AddedElements = {<<"b">>}
    /\ AddedAttributes = {<<"x">>}
    /\ MandatoryElements \cup MandatoryAttributes = {}
    /\ CommonElements = {<<"a">>}
    /\ last.result = Result(TRUE, <<"Content models compatible">>)

\* maxOccurs as the schema means it: "unbounded" is above every number
MaxBelow(e_new, e_old) ==
    IF e_new.maxOccurs = Str("unbounded") THEN FALSE
    ELSE IF e_old.maxOccurs = Str("unbounded") THEN TRUE
    ELSE max_occurs(e_new) < max_occurs(e_old)

Restricted(elem_name) ==
    \/ min_occurs(NewModel.elements[elem_name]) > min_occurs(OldModel.elements[elem_name])
    \/ MaxBelow(NewModel.elements[elem_name], OldModel.elements[elem_name])

\* C7: for an element in both content models the compatibility check returns incompatible
\* if the new minOccurs is greater than the old one or the new maxOccurs is
\* less than the old one (unbounded being above every number), and it never
\* gives 'cardinality restricted' for an element whose bounds only widened.
C7_Original ==
    Structural =>
        /\ (\E e \in CommonElements : Restricted(e)) => ~last.result.ok
        /\ \A e \in CommonElements :
              last.result.reason = <<"Cardinality restricted on element: ">> \o e
              => Restricted(e)

\* C8: in the record of compare_type every common element whose new
\* minOccurs is greater than the old one or whose new maxOccurs is less than
\* the old one is listed in restricted_cardinality and makes compatible
\* 'No', also when its other bound was widened at the same time.
C8_Original ==
    Compared =>
        \A e \in CommonElements :
            Narrowed(e) =>
                /\ last.result.compatible = Str("No")
                /\ \E i \in 1..Len(last.result.restricted_cardinality) :
                      last.result.restricted_cardinality[i]
                      = e \o format_cardinality(NewModel.elements[e].minOccurs,
                                                NewModel.elements[e].maxOccurs)

\* the entry of restricted_cardinality for an attribute
RequiredEntry(attr_name) == <<"@">> \o attr_name \o <<"(required)">>

\* nothing is violated before the common attributes are looked at
NothingBeforeAttributes ==
    /\ MissingElements \cup MissingAttributes = {}
    /\ MandatoryElements \cup MandatoryAttributes = {}
    /\ ~ElementViolation

\* no common attribute went from optional to required, so none is reported
NoneNowRequired ==
    (\A a \in CommonAttributes : ~NowRequired(a)) =>
        /\ \A i \in 1..Len(Why) : Why[i] \notin {"Attribute now required: "}
        /\ IsCompare =>
              \A i \in 1..Len(last.result.restricted_cardinality) :
                  ~StartsWith(last.result.restricted_cardinality[i], "@")
        /\ NothingBeforeAttributes => Verdict

\* C9 as stated: for an attribute in both content models a change of use
\* from optional to required gives an incompatible verdict whose reason, and
\* the record's notes and restricted_cardinality, name the attribute; a
\* change from required to optional, or none, never causes incompatibility.
C9_Original ==
    (Structural \/ Compared) =>
        /\ \A a \in CommonAttributes :
              NowRequired(a) =>
                  /\ ~Verdict
                  /\ Mentions(Why, a)
                  /\ IsCompare =>
                        RequiredEntry(a) \in RangeOf(last.result.restricted_cardinality)
        /\ NoneNowRequired

\* C9: for an attribute in both content models a change of use from optional
\* to required gives an incompatible verdict; the record of compare_type
\* names the attribute in its notes and in restricted_cardinality; the reason
\* of the compatibility check is 'Attribute now required' with such an attribute when no
\* missing member, no new mandatory member and no violation of a common
\* element comes before it.  A change from required to optional, or none,
\* never causes incompatibility.
C9_Theorem ==
    (Structural \/ Compared) =>
        /\ \A a \in CommonAttributes :
              NowRequired(a) =>
                  /\ ~Verdict
                  /\ IsCompare =>
                        /\ Mentions(Why, <<"Attribute now required: ">> \o a)
                        /\ RequiredEntry(a) \in RangeOf(last.result.restricted_cardinality)
        /\ (IsCheck /\ NothingBeforeAttributes
                    /\ \E a \in CommonAttributes : NowRequired(a)) =>
              \E a \in CommonAttributes :
                  /\ NowRequired(a)
                  /\ Why = <<"Attribute now required: ">> \o a
        /\ NoneNowRequired

\* attribute x went from optional to required and nothing else changed for
\* the worse
C9_Witness ==
    /\ Structural
    /\ CommonAttributes = {<<"x">>}
    /\ NowRequired(<<"x">>)
    /\ CommonElements = {<<"a">>, <<"b">>}
    /\ last.result = Result(FALSE, <<"Attribute now required: ", "x">>)

\* the key of the cache for the two types of a common element
NestedKey(elem_name) ==
    <<OldModel.elements[elem_name].type, NewModel.elements[elem_name].type>>

\* the entry of type_changes is that of the element
TypeChangeOf(entry, elem_name) ==
    /\ Len(entry) > Len(elem_name)
    /\ SubSeq(entry, 1, Len(elem_name) + 1) = elem_name \o <<": ">>

\* the last call has an answer for the two types of the element: the compatibility check
\* in its cache, compare_type in the type_changes of the record
Evaluated(elem_name) ==
    IF IsCheck THEN NestedKey(elem_name) \in DOMAIN type_compat_cache
    ELSE \E i \in 1..Len(last.result.type_changes) :
             TypeChangeOf(last.result.type_changes[i], elem_name)

\* the element's type is left alone: no evaluation, nothing reported
TypeLeftAlone(elem_name) ==
    /\ \A i \in 1..Len(last.writes) : last.writes[i][1] # NestedKey(elem_name)
    /\ NestedKey(elem_name) \notin DOMAIN type_compat_cache
    /\ ~Mentions(Why, <<"Incompatible type change on ">> \o elem_name)
    /\ ~Mentions(Why, <<"Incompatible type change: ">> \o elem_name)
    /\ IsCompare =>
          \A i \in 1..Len(last.result.type_changes) :
              ~TypeChangeOf(last.result.type_changes[i], elem_name)

\* the loop of the compatibility check over the common elements gets to the type of the
\* element: rules a-d found nothing, no element iterated before it stopped
\* the loop, and its own cardinality is not restricted
CommonElementsOrder ==
    Iter(Intersection(NameSet(OldModel.element_keys, set_order),
                      NameSet(NewModel.element_keys, set_order), set_order))

Reached(elem_name) ==
    /\ MissingElements \cup MissingAttributes = {}
    /\ MandatoryElements \cup MandatoryAttributes = {}
    /\ ~Narrowed(elem_name)
    /\ LET names == CommonElementsOrder
       IN  \A i, j \in 1..Len(names) :
               (i < j /\ names[j] = elem_name) =>
                   /\ ~Narrowed(names[i])
                   /\ TypeDiffers(names[i]) => NestedResult(names[i]).ok

\* C10 as stated: for an element in both content models whose declared type
\* differs and whose new type is not empty the engine evaluates the two
\* types, and if they are incompatible the outer verdict is incompatible
\* and its reason contains the nested reason; if the new type is empty or
\* the types are equal no nested evaluation takes place and the type of the
\* element contributes no violation.
C10_Original ==
    (Structural \/ Compared) =>
        \A e \in CommonElements :
            /\ TypeDiffers(e) =>
                  /\ Evaluated(e)
                  /\ ~NestedResult(e).ok =>
                        /\ ~Verdict
                        /\ Mentions(Why, NestedResult(e).reason)
            /\ ~TypeDiffers(e) => TypeLeftAlone(e)

\* C10: for an element in both content models whose declared type differs
\* and whose new type is not empty, compare_type evaluates the two types,
\* and so does the compatibility check when its loop gets to the element; if they are
\* incompatible the verdict is incompatible, the record names the nested
\* reason in its notes, and the reason of the compatibility check that got to the element
\* is 'Incompatible type change on' the element with the nested reason.  If
\* the new type is empty or the types are equal no nested evaluation takes
\* place and the type of the element contributes no violation.
C10_Theorem ==
    (Structural \/ Compared) =>
        \A e \in CommonElements :
            /\ (TypeDiffers(e) /\ IsCompare) =>
                  /\ Evaluated(e)
                  /\ ~NestedResult(e).ok =>
                        /\ ~Verdict
                        /\ Mentions(Why, <<"Incompatible type change: ">> \o e
                                         \o <<" (">> \o NestedResult(e).reason)
            /\ (TypeDiffers(e) /\ IsCheck) =>
                  /\ ~NestedResult(e).ok => ~Verdict
                  /\ Reached(e) =>
                        /\ Evaluated(e)
                        /\ ~NestedResult(e).ok =>
                              Why = <<"Incompatible type change on ">> \o e
                                    \o <<": ">> \o NestedResult(e).reason
            /\ ~TypeDiffers(e) => TypeLeftAlone(e)

\* the compatibility check got to element a, whose new type lacks an element of the old
\* one, after element b
C10_Witness ==
    /\ Structural
    /\ CommonElements = {<<"a">>, <<"b">>}
    /\ CommonElementsOrder[1] = <<"b">>
    /\ TypeDiffers(<<"a">>)
    /\ Reached(<<"a">>)
    /\ last.result = Result(FALSE, <<"Incompatible type change on ", "a", ": ",
                                     "Missing elements: ", "a">>)

-----------------------------------------------------------------------------
(* Schema files, the mapping file and analyze() *)

(* A schema file is a record: parses says whether it is well-formed XML,     *)
(* target_ns is the value of targetNamespace in its first characters (None   *)
(* when there is none), version the version attribute of its schema tag      *)
(* (None when there is none), readable whether it can be read as UTF-8 text, *)
(* items its top-level declarations in document order, xmlns the namespaces  *)
(* its schema tag declares (xmlns:...).  A directory is the sequence of its  *)
(* .xsd files in path order.                                                 *)

\* sub in s
Contains(s, sub) ==
    \E i \in 1..(Len(s) - Len(sub) + 1) : SubSeq(s, i, i + Len(sub) - 1) = sub

Whitespace == {" ", "\t"}

RECURSIVE lstrip(_)
lstrip(s) == IF s # <<>> /\ Head(s) \in Whitespace THEN lstrip(Tail(s)) ELSE s

RECURSIVE rstrip(_)
rstrip(s) ==
    IF s # <<>> /\ s[Len(s)] \in Whitespace
    THEN rstrip(SubSeq(s, 1, Len(s) - 1))
    ELSE s

\* s.strip()
strip(s) == lstrip(rstrip(s))

\* s.split(sep)
RECURSIVE split(_, _)
split(s, sep) ==
    IF \E i \in 1..Len(s) : s[i] = sep
    THEN LET i == CHOOSE k \in 1..Len(s) : s[k] = sep /\ \A j \in 1..(k - 1) : s[j] # sep
         IN  << SubSeq(s, 1, i - 1) >> \o split(SubSeq(s, i + 1, Len(s)), sep)
    ELSE << s >>

\* d[key] = value
Put(d, key, value) ==
    [k \in DOMAIN d \cup {key} |-> IF k = key THEN value ELSE d[k]]

\* the dict left by d[p[1]] = p[2] for each pair p in turn
RECURSIVE DictOf(_)
DictOf(pairs) ==
    IF pairs = <<>> THEN EmptyDict
    ELSE Put(DictOf(SubSeq(pairs, 1, Len(pairs) - 1)),
             pairs[Len(pairs)][1], pairs[Len(pairs)][2])

\* lines 102-114: the body of the loop over the lines of the mapping file
RECURSIVE ReadMappingLines(_, _)
ReadMappingLines(lines, mappings) ==
    IF lines = <<>> THEN mappings
    ELSE LET line  == strip(Head(lines))
             parts == split(line, "\t")
         IN  IF line = <<>> \/ StartsWith(line, "#")
             THEN ReadMappingLines(Tail(lines), mappings)
             ELSE IF /\ Len(parts) >= 2
                     /\ strip(parts[1]) # <<>>
                     /\ strip(parts[2]) # <<>>
             THEN ReadMappingLines(Tail(lines),
                                   Put(mappings, strip(parts[1]), strip(parts[2])))
             ELSE ReadMappingLines(Tail(lines), mappings)

(* file.given: a path was passed; file.exists: the file is there;           *)
(* file.decodes: it can be read as UTF-8; file.lines: its lines.            *)
load_mappings(file) ==
    IF ~file.given \/ ~file.exists THEN EmptyDict
    ELSE IF ~file.decodes THEN EmptyDict
    ELSE ReadMappingLines(file.lines, EmptyDict)

\* sorted(directory.rglob('*.xsd'))
find_schema_files(directory) == directory

XsNone == [tag |-> "None", children |-> <<>>]

\* fixed_resolver.parse_schema: the root element, None when parsing fails
parse_schema(file) ==
    IF file.parses THEN [tag |-> "schema", children |-> file.items] ELSE XsNone

LastPart(target_ns) ==
    LET parts == split(target_ns, "/")
    IN  parts[Len(parts)]

RECURSIVE rstrip_slash(_)
rstrip_slash(s) ==
    IF s # <<>> /\ s[Len(s)] = "/" THEN rstrip_slash(SubSeq(s, 1, Len(s) - 1)) ELSE s

_extract_namespace_label(xsd_file) ==
    LET target_ns == xsd_file.target_ns
    IN  \* no match: the attribute is absent or empty ([^"']+ needs a character)
        IF ~xsd_file.readable \/ target_ns = None \/ target_ns = <<>>
        THEN <<"unknown">>
        ELSE IF Contains(target_ns, <<"diggsml.org", "/schemas">>)
        THEN IF Contains(target_ns, <<"geotechnical">>)
             THEN <<"diggs_geo">> ELSE <<"diggs">>
        ELSE IF Contains(target_ns, <<"energistics.org/energyml/data/", "commonv2">>)
        THEN <<"eml">>
        ELSE IF Contains(target_ns, <<"energistics.org/energyml/data/", "witsmlv2">>)
        THEN <<"witsml">>
        ELSE IF Contains(target_ns, <<"opengis.net/gml">>)
        THEN IF Contains(target_ns, <<"/lr", "ov">>) THEN <<"glrov">>
             ELSE IF Contains(target_ns, <<"/lr">>) THEN <<"glr">>
             ELSE <<"gml">>
        \* parts[-1] if parts else 'unknown': split never returns an empty list,
        \* so the last part is returned even when it is the empty str
        ELSE LastPart(rstrip_slash(target_ns))

\* f"{ns_label}:{name}": the label's last token becomes a prefix token
Qualified(ns_label, name) ==
    IF ns_label = <<>> THEN << ":" >> \o name
    ELSE SubSeq(ns_label, 1, Len(ns_label) - 1)
             \o << ns_label[Len(ns_label)] \o ":" >> \o name

\* schema.findall('.//xs:' + tag) with a name, as (qualified name, node) pairs
NamedNodes(schema, ns_label, tag) ==
    LET found == SelectSeq(schema.children,
                           LAMBDA item : item.tag = tag /\ Truthy(item.name))
    IN  [i \in 1..Len(found) |-> << Qualified(ns_label, found[i].name), found[i].def >>]

\* the xs:attribute nodes with a name below one top-level declaration
AttributesBelow(item) ==
    IF item.tag = "attribute"
    THEN IF Truthy(item.name) THEN << <<item.name, item.def>> >> ELSE <<>>
    ELSE IF item.tag = "complexType"
    THEN LET named == SelectSeq(item.def.attrs, LAMBDA a : Truthy(a.name))
         IN  [i \in 1..Len(named) |-> <<named[i].name, named[i]>>]
    ELSE <<>>

\* fixed_resolver.get_all_attributes
get_all_attributes(schemas) ==
    DictOf(Flatten([i \in 1..Len(schemas) |->
               Flatten([j \in 1..Len(schemas[i].children) |->
                           AttributesBelow(schemas[i].children[j])])]))

\* lines 137-147: the parsed schemas with their namespace labels
SchemasWithNs(schema_files) ==
    LET parsed == SelectSeq(schema_files, LAMBDA f : parse_schema(f) # XsNone)
    IN  [i \in 1..Len(parsed) |->
            [schema |-> parse_schema(parsed[i]),
             ns_label |-> _extract_namespace_label(parsed[i])]]

\* lines 149-167: the registry of the declarations with this tag
Collect(schemas_with_ns, tag) ==
    DictOf(Flatten([i \in 1..Len(schemas_with_ns) |->
               NamedNodes(schemas_with_ns[i].schema, schemas_with_ns[i].ns_label, tag)]))

load_schemas(directory) ==
    LET schema_files    == find_schema_files(directory)
        schemas_with_ns == SchemasWithNs(schema_files)
    IN  IF schema_files = <<>>
        THEN [raised |-> <<"ValueError: No .xsd files found">>,
              types |-> EmptyDict, attrs |-> EmptyDict, simpletypes |-> EmptyDict]
        ELSE [raised |-> None,
              types |-> Collect(schemas_with_ns, "complexType"),
              attrs |-> get_all_attributes(
                            [i \in 1..Len(schemas_with_ns) |-> schemas_with_ns[i].schema]),
              simpletypes |-> Collect(schemas_with_ns, "simpleType")]

\* lines 54-80: the versions found in the schema tags of the files.
\* 'diggsml.org' in schema_tag looks at the whole tag; the pattern of the
\* version finds none in an empty attribute ([^"']+)
VersionsIn(directory) ==
    { directory[i].version : i \in
        { j \in 1..Len(directory) :
            /\ directory[j].readable
            /\ \/ /\ directory[j].target_ns # None
                  /\ Contains(directory[j].target_ns, <<"diggsml.org">>)
               \/ \E k \in 1..Len(directory[j].xmlns) :
                      Contains(directory[j].xmlns[k], <<"diggsml.org">>)
            /\ directory[j].version # None
            /\ directory[j].version # <<>>
            /\ directory[j].version \notin { <<"1.0">>, <<"1.1">> } } }

detect_version(directory) ==
    IF VersionsIn(directory) = {}
    THEN [raised |-> <<"ValueError: No DIGGS schema version found">>, version |-> None]
    ELSE [raised |-> None, version |-> Sorted(VersionsIn(directory))[1]]

\* ET.tostring(st, encoding='unicode'): the element, its content and its tail
tostring(st) ==
    <<"<simpleType name=\"">> \o st.name \o <<"\"><restriction base=\"">> \o st.base
        \o <<"\">">> \o st.facets \o <<"</restriction></simpleType>">> \o st.tail

\* lines 583-587
SimpleTypeFound(result, qualified_name, mapped_name) ==
    IF Truthy(mapped_name)
    THEN [result EXCEPT
            !.type_removed = <<"Renamed to: ">> \o mapped_name,
            !.notes = <<"SimpleType renamed from ">> \o qualified_name
                      \o <<" to ">> \o mapped_name]
    ELSE [result EXCEPT !.type_removed = Str("No")]

\* lines 596-598
RestrictionChanged(result, old_str, new_str) ==
    IF old_str # new_str
    THEN [result EXCEPT
            !.restriction_changed = Str("Yes"),
            !.notes = IF Truthy(result.notes)
                      THEN result.notes \o <<"; Restriction or base type changed">>
                      ELSE <<"Restriction or base type changed">>]
    ELSE result

compare_simpletype(qualified_name, mapped_name) ==
    LET result == [name                |-> qualified_name,
                   type_removed        |-> <<>>,
                   base_changed        |-> <<>>,
                   restriction_changed |-> <<>>,
                   notes               |-> <<>>,
                   compatible          |-> Str("Yes")]
        target == IF Truthy(mapped_name) THEN mapped_name ELSE qualified_name
    IN  IF target \notin DOMAIN new_simpletypes
        THEN [result EXCEPT !.type_removed = Str("Yes"),
                            !.compatible = Str("No"),
                            !.notes = <<"SimpleType not found in new version">>]
        ELSE RestrictionChanged(
                 SimpleTypeFound(result, qualified_name, mapped_name),
                 IF qualified_name \in DOMAIN old_simpletypes
                 THEN tostring(old_simpletypes[qualified_name]) ELSE <<>>,
                 tostring(new_simpletypes[target]))

\* self.type_mappings.get(key)
MappingGet(key) == IF key \in DOMAIN type_mappings THEN type_mappings[key] ELSE None

\* qualified_name.split(':')[-1]
BareName(qualified_name) ==
    LET colons == {i \in 1..Len(qualified_name) : IsPrefix(qualified_name[i])}
    IN  IF colons = {} THEN qualified_name
        ELSE SubSeq(qualified_name,
                    (CHOOSE i \in colons : \A j \in colons : j <= i) + 1,
                    Len(qualified_name))

\* f"{qualified_name.split(':')[0]}:{mapped_name}"
PotentialNew(qualified_name, mapped_name) ==
    LET colons == {i \in 1..Len(qualified_name) : IsPrefix(qualified_name[i])}
    IN  IF colons = {} THEN <<":">> \o mapped_name
        ELSE SubSeq(qualified_name, 1, CHOOSE i \in colons : \A j \in colons : i <= j)
                 \o mapped_name

\* lines 636-649 and 663-673: the name to compare qualified_name with
MappedName(qualified_name, new_registry) ==
    IF Truthy(MappingGet(qualified_name)) THEN MappingGet(qualified_name)
    ELSE LET mapped_name == MappingGet(BareName(qualified_name))
         IN  IF /\ Truthy(mapped_name)
                /\ ~HasColon(mapped_name)
                /\ PotentialNew(qualified_name, mapped_name) \in DOMAIN new_registry
             THEN PotentialNew(qualified_name, mapped_name)
             ELSE mapped_name

\* sorted(registry.keys())
KeysMutFirstOnly(registry) == Take(Sorted(DOMAIN registry), 1)
SortedKeys(registry) == Sorted(DOMAIN registry)

\* lines 630-652: the loop over the old complex types
RECURSIVE CompareTypes(_, _, _, _)
RECURSIVE CompareTypesNext(_, _, _, _)
CompareTypes(names, results, st, order) ==
    IF names = <<>>
    THEN [results |-> results, cache |-> st.cache, writes |-> st.writes,
          raised |-> None]
    ELSE CompareTypesNext(names, results,
             compare_type(Head(names), MappedName(Head(names), new_types), st, order),
             order)

CompareTypesNext(names, results, ret, order) ==
    IF Raised(ret.result)
    THEN [results |-> results, cache |-> ret.cache, writes |-> ret.writes,
          raised |-> ret.result.raised]
    ELSE CompareTypes(Tail(names), Append(results, ret.result),
                      [cache |-> ret.cache, writes |-> ret.writes], order)

\* lines 658-676: the loop over the old simple types
CompareSimpletypes(names) ==
    [i \in 1..Len(names) |->
        compare_simpletype(names[i], MappedName(names[i], new_simpletypes))]

AnalyzeCall(raised, results, simpletype_results, writes) ==
    [op |-> "analyze", raised |-> raised, results |-> results,
     simpletype_results |-> simpletype_results, writes |-> writes]

AnalyzeUnchanged == UNCHANGED <<old_dir, new_dir, mapping_file, set_order,
                                rs_stack, rs_ret, rs_pc,
                ck_stack, ck_ret, ck_pc, ck_calls>>

\* analyze(), lines 608-624: the versions, the mappings and the two registries
AnalyzeLoad ==
    /\ an_pc = "idle"
    /\ AnalyzeUnchanged
    /\ UNCHANGED type_compat_cache
    /\ IF detect_version(old_dir).raised # None \/ detect_version(new_dir).raised # None
       THEN /\ last' = AnalyzeCall(
                          IF detect_version(old_dir).raised # None
                          THEN detect_version(old_dir).raised
                          ELSE detect_version(new_dir).raised, <<>>, <<>>, <<>>)
            /\ UNCHANGED <<old_types, old_attrs, old_simpletypes, new_types,
                           new_attrs, new_simpletypes, type_mappings, an_pc>>
       ELSE /\ type_mappings' = load_mappings(mapping_file)
            /\ IF load_schemas(old_dir).raised # None
               THEN /\ last' = AnalyzeCall(load_schemas(old_dir).raised, <<>>, <<>>, <<>>)
                    /\ UNCHANGED <<old_types, old_attrs, old_simpletypes, new_types,
                                   new_attrs, new_simpletypes, an_pc>>
               ELSE /\ old_types' = load_schemas(old_dir).types
                    /\ old_attrs' = load_schemas(old_dir).attrs
                    /\ old_simpletypes' = load_schemas(old_dir).simpletypes
                    /\ IF load_schemas(new_dir).raised # None
                       THEN /\ last' = AnalyzeCall(load_schemas(new_dir).raised,
                                                   <<>>, <<>>, <<>>)
                            /\ UNCHANGED <<new_types, new_attrs, new_simpletypes, an_pc>>
                       ELSE /\ new_types' = load_schemas(new_dir).types
                            /\ new_attrs' = load_schemas(new_dir).attrs
                            /\ new_simpletypes' = load_schemas(new_dir).simpletypes
                            /\ last' = AnalyzeCall(None, <<>>, <<>>, <<>>)
                            /\ an_pc' = "loaded"

\* lines 682-691: the statistics divide by len(results)
Statistics(results) ==
    IF results = <<>> THEN <<"ZeroDivisionError">> ELSE None

AnalyzeFinish(compared) ==
    /\ type_compat_cache' = IF compared.raised # None THEN compared.cache ELSE EmptyDict
    /\ last' = IF compared.raised # None
               THEN AnalyzeCall(compared.raised, <<>>, <<>>, compared.writes)
               ELSE IF Statistics(compared.results) # None
               THEN AnalyzeCall(Statistics(compared.results), <<>>, <<>>, compared.writes)
               ELSE AnalyzeCall(None, compared.results,
                                CompareSimpletypes(SortedKeys(old_simpletypes)),
                                compared.writes)

\* analyze(), lines 626-693: the comparisons, the statistics and the return
AnalyzeCompare ==
    /\ an_pc = "loaded"
    /\ an_pc' = "idle"
    /\ AnalyzeUnchanged
    /\ UNCHANGED <<old_types, old_attrs, old_simpletypes, new_types,
                   new_attrs, new_simpletypes, type_mappings>>
    /\ AnalyzeFinish(CompareTypes(SortedKeys(old_types), <<>>, Fresh, set_order))

-----------------------------------------------------------------------------
(* The whole program: an analyzer built on two directories and a mapping file *)

XsdFile(parses, target_ns, version, items) ==
    [parses |-> parses, readable |-> TRUE, target_ns |-> target_ns,
     version |-> version, items |-> items, xmlns |-> <<>>]

ComplexTypeItem(name, def) == [tag |-> "complexType", name |-> name, def |-> def]

SimpleTypeItem(name, base, facets, tail) ==
    [tag |-> "simpleType", name |-> name,
     def |-> [name |-> name, base |-> base, facets |-> facets, tail |-> tail]]

DiggsNs(version) == <<"http://", "diggsml.org", "/schemas", "/">> \o version
EmlNs == <<"http://www.", "energistics.org/energyml/data/", "commonv2">>
GmlNs == <<"http://www.", "opengis.net/gml", "/", "3.2">>

TypeQ == <<"diggs:", "Q">>
TypeG == <<"gml:", "G">>
TypeS == <<"eml:", "S">>
XsInt == <<"xs:", "int">>

ElemA(type) == << XsElement(<<"a">>, type, None, None) >>
ElemB(minOccurs, maxOccurs) == << XsElement(<<"b">>, XsString, minOccurs, maxOccurs) >>
AttrX(use) == << XsAttribute(<<"x">>, None, use) >>

\* the old version: diggs:P, eml:A, eml:B, eml:S and gml:G
OldDiggsItems ==
    << ComplexTypeItem(<<"P">>, PlainType(ElemA(XsString), <<>>, AttrX(None))) >>
OldEmlItems ==
    << ComplexTypeItem(<<"A">>,
           PlainType(ElemA(TypeB), ElemB(Str("0"), Str("unbounded")), <<>>)),
       ComplexTypeItem(<<"B">>, OldNested),
       SimpleTypeItem(<<"S">>, XsString, <<"<maxLength value=\"8\"/>">>, <<"\n">>) >>
OldGmlItems ==
    << ComplexTypeItem(<<"G">>, PlainType(ElemA(XsString), <<>>, <<>>)) >>

OldDirs ==
    { <<>>,
      << XsdFile(FALSE, DiggsNs(<<"2.6">>), <<"2.6">>, OldDiggsItems) >>,
      << XsdFile(TRUE, DiggsNs(<<"2.6">>), <<"2.6">>, OldDiggsItems),
         XsdFile(TRUE, EmlNs, None, OldEmlItems),
         XsdFile(TRUE, GmlNs, None, OldGmlItems) >> }

\* the new version: diggs:P and gml:G have lost their members, diggs:Q is new
NewDiggsItems ==
    << ComplexTypeItem(<<"P">>, PlainType(<<>>, <<>>, <<>>)),
       ComplexTypeItem(<<"Q">>, PlainType(<<>>, <<>>, <<>>)) >>
NewGmlItems ==
    << ComplexTypeItem(<<"G">>, PlainType(<<>>, <<>>, <<>>)) >>

\* eml:A and eml:C are the same new root type, eml:D is the new nested type
NewEmlItems(root, nested, simple) ==
    << ComplexTypeItem(<<"A">>, root),
       ComplexTypeItem(<<"C">>, root),
       ComplexTypeItem(<<"D">>, nested) >> \o simple

NewRoots ==
    { PlainType(ElemA(TypeB), ElemB(Str("0"), Str("unbounded")), <<>>),
      PlainType(ElemA(TypeD), ElemB(Str("0"), Str("unbounded")), AttrX(None)),
      PlainType(ElemA(TypeD), ElemB(None, None), <<>>),
      PlainType(<<>>, <<>>, <<>>) }

NewSimple ==
    { <<>>,
      << SimpleTypeItem(<<"S">>, XsString, <<"<maxLength value=\"8\"/>">>, <<"\n">>) >>,
      << SimpleTypeItem(<<"S">>, XsString, <<"<maxLength value=\"4\"/>">>, <<"\n">>) >> }

NewDirs ==
    { <<>>,
      << XsdFile(FALSE, DiggsNs(<<"3.0">>), <<"3.0">>, NewDiggsItems),
         XsdFile(FALSE, EmlNs, None, <<>>) >> }
    \cup
    { << XsdFile(TRUE, DiggsNs(<<"3.0">>), <<"3.0">>, NewDiggsItems),
         XsdFile(TRUE, EmlNs, None, NewEmlItems(root, nested, simple)),
         XsdFile(TRUE, GmlNs, None, NewGmlItems) >> :
        root \in NewRoots, nested \in NewNested, simple \in NewSimple }

MappingFile(lines) == [given |-> TRUE, exists |-> TRUE, decodes |-> TRUE, lines |-> lines]

MappingFiles ==
    { NoMappingFile,
      MappingFile(<< <<"#", " ", "renamed">>,
                     <<"eml:", "A", "\t", "eml:", "C">>,
                     <<>>,
                     <<"diggs:", "P", "\t", "diggs:", "Q">> >>),
      MappingFile(<< <<"A", "\t", "C", " ">>,
                     <<"P", "\t", "Q">>,
                     <<"B">> >>),
      MappingFile(<< <<"G", "\t", "Q">>,
                     <<"eml:", "A", "\t", "eml:", "D">>,
                     <<"A", "\t", "C">> >>) }

InitAnalyze ==
    /\ old_dir \in OldDirs
    /\ new_dir \in NewDirs
    /\ mapping_file \in MappingFiles
    /\ old_types = EmptyDict
    /\ old_attrs = EmptyDict
    /\ old_simpletypes = EmptyDict
    /\ new_types = EmptyDict
    /\ new_attrs = EmptyDict
    /\ new_simpletypes = EmptyDict
    /\ type_mappings = EmptyDict
    /\ type_compat_cache = EmptyDict
    /\ set_order \in SetOrders
    /\ last = NoCall
    /\ rs_stack = <<>>
    /\ rs_ret = EmptyModel
    /\ rs_pc = "off"
    /\ CheckOff
    /\ an_pc = "idle"

\* the pairs of type names the engine is asked about
CheckPairs ==
    { <<TypeA, TypeC>>, <<TypeA, TypeA>>, <<TypeP, TypeQ>>, <<TypeG, TypeG>>,
      <<XsString, XsInt>>, <<TypeA, XsString>>, <<TypeA, <<"eml:", "string">>>> }

MaxCached == 2

\* analyzer.check_type_content_compatibility(old_type, new_type), between runs
CheckLoaded ==
    /\ an_pc = "idle"
    /\ Cardinality(DOMAIN type_compat_cache) < MaxCached
    /\ \E pair \in CheckPairs : CheckTypeContentCompatibility(pair[1], pair[2])

NextAnalyze ==
    \/ AnalyzeLoad
    \/ AnalyzeCompare
    \/ CheckLoaded

SpecAnalyze == InitAnalyze /\ [][NextAnalyze]_vars

-----------------------------------------------------------------------------
(* Claims about the engine on registries read from files, checked under    *)
(* SpecAnalyze                                                              *)

\* the pair of names of the last compatibility check
Pair == <<last.old_type, last.new_type>>

\* rule 1 applies to the last compatibility check
SameNormalized ==
    normalize_type_name(last.old_type) = normalize_type_name(last.new_type)

\* the mapping has the old name as it is written in the registry as a key
\* and sends it to the new name
QualifiedMatch == MappingGet(last.old_type) = last.new_type

\* the mapping has no such key, but it has the old name's local part as a
\* key, and its target, put under the old name's namespace label, is the
\* new name and is in the new registry
BareMatch ==
    /\ ~Truthy(MappingGet(last.old_type))
    /\ Truthy(MappingGet(BareName(last.old_type)))
    /\ ~HasColon(MappingGet(BareName(last.old_type)))
    /\ PotentialNew(last.old_type, MappingGet(BareName(last.old_type))) = last.new_type
    /\ last.new_type \in DOMAIN new_types

\* the mapping rule as the engine tests it (lines 273-279)
EngineMatch ==
    /\ normalize_type_name(last.old_type) \in DOMAIN type_mappings
    /\ normalize_type_name(type_mappings[normalize_type_name(last.old_type)])
          = normalize_type_name(last.new_type)

\* the last call wrote nothing to the cache but the verdict of its own pair
OwnPairOnly ==
    /\ \A i \in 1..Len(last.writes) : last.writes[i] = <<Pair, last.result>>
    /\ Len(last.writes) <= 1
    /\ \A k \in DOMAIN type_compat_cache \ {Pair} :
          k \in DOMAIN last.cache /\ type_compat_cache[k] = last.cache[k]

\* C11: when the mapping sends the old type to the new type, by a qualified
\* key or by a bare local name put under the old type's namespace label with
\* the target in the new registry, the compatibility check of the two types
\* returns compatible with the reason 'Known mapping' and compares nothing.
C11_Original ==
    (IsCheck /\ ~SameNormalized /\ (QualifiedMatch \/ BareMatch)) =>
        /\ last.result = Result(TRUE, <<"Known mapping">>)
        /\ OwnPairOnly

\* the name is that of a built-in primitive: it has the prefix xs:, or its
\* local part is one of the names of the list of built-in types
Primitive(name) ==
    \/ StartsWith(name, "xs:")
    \/ Len(name) = 1 /\ name[1] \in builtins
    \/ Len(name) = 2 /\ IsPrefix(name[1]) /\ name[2] \in builtins

\* C12: when rules 1 and 2 do not apply and one of the two names is a
\* built-in type, the verdict is incompatible with the reason 'Built-in type
\* change: old -> new' on the normalized names (the names are not equal, or
\* rule 1 would apply), and only the verdict of the pair itself is written:
\* no registry is read and no other pair is evaluated.
C12_Theorem ==
    (/\ IsCheck
     /\ ~SameNormalized
     /\ ~EngineMatch /\ ~QualifiedMatch /\ ~BareMatch
     /\ Primitive(last.old_type) \/ Primitive(last.new_type)) =>
        /\ last.result =
              Result(FALSE, <<"Built-in type change: ">>
                            \o normalize_type_name(last.old_type) \o <<" -> ">>
                            \o normalize_type_name(last.new_type))
        /\ OwnPairOnly

\* eml:A is in the old registry with members, and it is compared with xs:string
C12_Witness ==
    /\ IsCheck
    /\ Pair = <<TypeA, XsString>>
    /\ TypeA \in DOMAIN old_types
    /\ last.result = Result(FALSE, <<"Built-in type change: ", "eml:", "A", " -> ",
                                     "xs:", "string">>)
    /\ last.writes # <<>>

\* C13: every key of a registry is, once normalized, a key of that registry,
\* and a compatibility check says 'Old type ... not found' only when the old
\* name is not a key of the old registry, 'New type ... not found' only when
\* the new name is not a key of the new registry.
C13_Original ==
    /\ \A k \in DOMAIN old_types : normalize_type_name(k) \in DOMAIN old_types
    /\ \A k \in DOMAIN new_types : normalize_type_name(k) \in DOMAIN new_types
    /\ (IsCheck /\ StartsWith(last.result.reason, "Old type ")) =>
          last.old_type \notin DOMAIN old_types
    /\ (IsCheck /\ StartsWith(last.result.reason, "New type ")) =>
          last.new_type \notin DOMAIN new_types

\* C14: a compatibility check of a name with itself returns compatible with
\* the reason 'Types identical', whatever the mapping, the registries and
\* the content models are, and evaluates no other pair.
C14_Theorem ==
    (IsCheck /\ last.old_type = last.new_type) =>
        /\ last.result = Result(TRUE, <<"Types identical">>)
        /\ OwnPairOnly

\* eml:A has lost all its members and the mapping sends it elsewhere
C14_Witness ==
    /\ IsCheck
    /\ Pair = <<TypeA, TypeA>>
    /\ TypeA \in DOMAIN old_types /\ TypeA \in DOMAIN new_types
    /\ DOMAIN resolve_content_model(TypeA, new_types, new_attrs, {}, 0).elements = {}
    /\ DOMAIN resolve_content_model(TypeA, old_types, old_attrs, {}, 0).elements # {}
    /\ MappingGet(TypeA) = TypeC
    /\ last.writes # <<>>

-----------------------------------------------------------------------------
(* Claims about a run of analyze, checked under SpecAnalyze *)

IsAnalyze == last.op = "analyze"

\* analyze has returned its two lists of records
Completed == IsAnalyze /\ an_pc = "idle" /\ last.raised = None

\* the names of the records, in the order of the list
NamesIn(records) == [i \in 1..Len(records) |-> records[i].name]

\* the simple type a record of the last run was compared with
SimpleTarget(record) ==
    IF Truthy(MappedName(record.name, new_simpletypes))
    THEN MappedName(record.name, new_simpletypes)
    ELSE record.name

\* C15: the record of a simple type that is in both versions has compatible
\* = 'Yes' if and only if the serialized old definition is the same text as
\* the serialized new one.
C15_Original ==
    Completed =>
        \A i \in 1..Len(last.simpletype_results) :
            SimpleTarget(last.simpletype_results[i]) \in DOMAIN new_simpletypes =>
                ( last.simpletype_results[i].compatible = Str("Yes")
                  <=> tostring(old_simpletypes[last.simpletype_results[i].name])
                        = tostring(new_simpletypes[
                              SimpleTarget(last.simpletype_results[i])]) )

\* no file of the directory parses: there is none, or none is well-formed
NoneParses(directory) == \A i \in 1..Len(directory) : ~directory[i].parses

\* C16: when a directory has no schema file, or none of its files parses,
\* building its registries fails with a load error, and a run of analyze is
\* aborted by that error before any type is compared; no empty registry is
\* built from zero parsed files.
C16_Original ==
    (IsAnalyze /\ (NoneParses(old_dir) \/ NoneParses(new_dir))) =>
          /\ \A directory \in {old_dir, new_dir} :
                NoneParses(directory) => load_schemas(directory).raised # None
          /\ an_pc = "idle"
          /\ StartsWith(last.raised, "ValueError: No DIGGS schema version found")
                \/ StartsWith(last.raised, "ValueError: No .xsd files found")
          /\ last.results = <<>> /\ last.simpletype_results = <<>>
          /\ last.writes = <<>>

\* C17: a completed run returns exactly one record for every key of the old
\* registry of complex types and exactly one for every key of the old
\* registry of simple types, each with that key as its name, and no record
\* for any other name.
C17_Theorem ==
    Completed =>
        /\ \A k \in DOMAIN old_types :
              Cardinality({i \in 1..Len(last.results) : last.results[i].name = k}) = 1
        /\ \A i \in 1..Len(last.results) : last.results[i].name \in DOMAIN old_types
        /\ \A k \in DOMAIN old_simpletypes :
              Cardinality({i \in 1..Len(last.simpletype_results) :
                              last.simpletype_results[i].name = k}) = 1
        /\ \A i \in 1..Len(last.simpletype_results) :
              last.simpletype_results[i].name \in DOMAIN old_simpletypes

\* a run over four old complex types and one old simple type, with types
\* that only the new version has and a renamed type
C17_Witness ==
    /\ Completed
    /\ NamesIn(last.results) = << TypeP, TypeA, TypeB, TypeG >>
    /\ NamesIn(last.simpletype_results) = << TypeS >>
    /\ {TypeC, TypeD, TypeQ} \subseteq DOMAIN new_types \ DOMAIN old_types
    /\ last.results[2].type_removed = <<"Renamed to: ", "eml:", "C">>

-----------------------------------------------------------------------------
(* The member lists of the record of compare_type, checked under Spec *)

\* an added element as the record lists it: name(min..max)
ListedElement(e) ==
    e \o <<"(">> \o NewModel.elements[e].minOccurs \o <<"..">>
      \o NewModel.elements[e].maxOccurs \o <<")">>

\* an added attribute as the record lists it: @name(use)
ListedAttribute(a) == <<"@">> \o a \o <<"(">> \o NewModel.attributes[a].use \o <<")">>

\* the two versions of the type differ in nothing but added optional members
OnlyOptionalAdditions ==
    /\ Compared
    /\ AddedElements \cup AddedAttributes # {}
    /\ MandatoryElements \cup MandatoryAttributes = {}
    /\ MissingElements \cup MissingAttributes = {}
    /\ \A e \in CommonElements : OldModel.elements[e] = NewModel.elements[e]
    /\ \A a \in CommonAttributes : OldModel.attributes[a] = NewModel.attributes[a]

\* C18: in the record of compare_type new_elements lists the members of the
\* new content model that the old one lacks, each once, elements as
\* name(min..max) and attributes as @name(use), and nothing else;
\* missing_elements lists the old members that the new model lacks, each
\* once, attributes as @name, and nothing else; a record whose only
\* difference is added optional members has compatible = 'Yes'.
C18_Theorem ==
    Compared =>
        /\ RangeOf(last.result.new_elements) =
              {ListedElement(e) : e \in AddedElements}
              \cup {ListedAttribute(a) : a \in AddedAttributes}
        /\ Len(last.result.new_elements) =
              Cardinality(AddedElements) + Cardinality(AddedAttributes)
        /\ RangeOf(last.result.missing_elements) =
              MissingElements \cup {<<"@">> \o a : a \in MissingAttributes}
        /\ Len(last.result.missing_elements) =
              Cardinality(MissingElements) + Cardinality(MissingAttributes)
        /\ OnlyOptionalAdditions => last.result.compatible = Str("Yes")

\* the new version adds the optional element b and the optional attribute x
C18_Witness ==
    /\ OnlyOptionalAdditions
    /\ last.result.new_elements = << <<"b", "(", "0", "..", "1", ")">>,
                                     <<"@", "x", "(", "optional", ")">> >>
    /\ last.result.missing_elements = <<>>
    /\ CommonElements = {<<"a">>}
    /\ last.result.compatible = Str("Yes")

-----------------------------------------------------------------------------
(* Resolution of the registered types and the order of the structural      *)
(* rules, checked under SpecAnalyze                                        *)

\* the content model of a key of a registry has the members that the type
\* declares itself
HasLocalMembers(k, all_types, all_attrs) ==
    /\ NamesOf(extract_local_elements(all_types[k]).elements)
          \subseteq DOMAIN resolve_content_model(k, all_types, all_attrs, {}, 0).elements
    /\ NamesOf(extract_local_attributes(all_types[k], all_attrs))
          \subseteq DOMAIN resolve_content_model(k, all_types, all_attrs, {}, 0).attributes

\* C19: for every key under which load_schemas registered a complex type,
\* resolve_content_model at depth 0 with nothing visited finds the
\* definition, and its result has the members the type declares itself.
C19_Original ==
    /\ \A k \in DOMAIN old_types :
          /\ lookup_name(k) \in DOMAIN old_types
          /\ HasLocalMembers(k, old_types, old_attrs)
    /\ \A k \in DOMAIN new_types :
          /\ lookup_name(k) \in DOMAIN new_types
          /\ HasLocalMembers(k, new_types, new_attrs)

\* the start of the reason of the first structural rule, in the order a-g,
\* that the two content models of the last compatibility check violate
FirstViolated ==
    IF MissingElements # {} THEN "Missing elements: "
    ELSE IF MissingAttributes # {} THEN "Missing attributes: "
    ELSE IF MandatoryElements # {} THEN "New required element: "
    ELSE IF MandatoryAttributes # {} THEN "New required attribute: "
    ELSE IF \E e \in CommonElements : Narrowed(e)
    THEN "Cardinality restricted on element: "
    ELSE IF \E e \in CommonElements : TypeDiffers(e) /\ ~NestedResult(e).ok
    THEN "Incompatible type change on "
    ELSE IF \E a \in CommonAttributes : NowRequired(a) THEN "Attribute now required: "
    ELSE "Content models compatible"

\* C20: the reason of a structural comparison is that of the first rule, in
\* the order a (missing elements), b (missing attributes), c (new required
\* element), d (new required attribute), e (cardinality restricted), f
\* (incompatible nested type change), g (attribute now required), that is
\* violated; a restricted cardinality of any common element wins over an
\* incompatible type change of another.
C20_Original == Structural => StartsWith(last.result.reason, FirstViolated)

-----------------------------------------------------------------------------
(* Claims about the choice of the comparison target, checked under         *)
(* SpecAnalyze                                                              *)

\* the mapping has the qualified name as a key
ExactMapping(k) == Truthy(MappingGet(k))

\* the mapping has no such key but has the bare local name as a key, with a
\* target that has no namespace label
BareMapping(k) ==
    /\ ~ExactMapping(k)
    /\ Truthy(MappingGet(BareName(k)))
    /\ ~HasColon(MappingGet(BareName(k)))

\* the target of the bare mapping under the namespace label of the old type
Requalified(k) == PotentialNew(k, MappingGet(BareName(k)))

\* C21: in a completed run the record of an old type whose qualified name is
\* a key of the mapping is compared with the target of that key; otherwise a
\* bare-name mapping is applied when its re-qualified target is in the new
\* registry; a bare-name mapping whose re-qualified target is not in the new
\* registry is not applied, so that an old type that is in the new registry
\* under its own name is compared with that type and is not reported removed.
C21_Original ==
    Completed =>
        \A i \in 1..Len(last.results) :
            /\ (/\ ExactMapping(last.results[i].name)
                /\ MappingGet(last.results[i].name) \in DOMAIN new_types) =>
                  last.results[i].type_removed =
                      <<"Renamed to: ">> \o MappingGet(last.results[i].name)
            /\ (/\ BareMapping(last.results[i].name)
                /\ Requalified(last.results[i].name) \in DOMAIN new_types) =>
                  last.results[i].type_removed =
                      <<"Renamed to: ">> \o Requalified(last.results[i].name)
            /\ (/\ BareMapping(last.results[i].name)
                /\ Requalified(last.results[i].name) \notin DOMAIN new_types
                /\ last.results[i].name \in DOMAIN new_types) =>
                  last.results[i].type_removed = Str("No")

-----------------------------------------------------------------------------
(* load_mappings on its own: an analyzer built on a mapping file *)

\* a byte sequence that is not UTF-8
Undecodable == "0xFF"

\* the lines a mapping file is made of
MappingLines ==
    { <<"A", "\t", "C">>,
      <<" ", "A", " ", "\t", " ", "D", " ">>,
      <<"eml:", "B", "\t", "eml:", "D", "\t", "x">>,
      <<"#", "A", "\t", "C">>,
      <<" ">>,
      <<"B">>,
      <<"A", "\t", " ", "\t", "C">>,
      <<Undecodable, "\t", "C">> }

MaxLines == 3

\* open(..., encoding='utf-8') reads the file or raises UnicodeDecodeError
MappingFileOf(lines) ==
    [given   |-> TRUE,
     exists  |-> TRUE,
     decodes |-> \A i \in 1..Len(lines) : \A j \in 1..Len(lines[i]) :
                    lines[i][j] # Undecodable,
     lines   |-> lines]

MappingInputs ==
    { NoMappingFile,
      [given |-> TRUE, exists |-> FALSE, decodes |-> FALSE, lines |-> <<>>] }
    \cup { MappingFileOf(lines) :
             lines \in UNION { [1..n -> MappingLines] : n \in 0..MaxLines } }

InitMappings ==
    /\ old_dir = <<>>
    /\ new_dir = <<>>
    /\ mapping_file \in MappingInputs
    /\ old_types = EmptyDict
    /\ old_attrs = EmptyDict
    /\ old_simpletypes = EmptyDict
    /\ new_types = EmptyDict
    /\ new_attrs = EmptyDict
    /\ new_simpletypes = EmptyDict
    /\ type_mappings = EmptyDict
    /\ type_compat_cache = EmptyDict
    /\ set_order = <<>>
    /\ last = NoCall
    /\ rs_stack = <<>>
    /\ rs_ret = EmptyModel
    /\ rs_pc = "off"
    /\ CheckOff
    /\ an_pc = "idle"

\* analyzer.load_mappings(): it returns the dict and assigns no field
LoadMappings ==
    /\ last' = [op |-> "load_mappings", result |-> load_mappings(mapping_file)]
    /\ UNCHANGED <<old_dir, new_dir, mapping_file, old_simpletypes, new_simpletypes,
                   old_types, new_types, old_attrs, new_attrs, type_mappings,
                   type_compat_cache, set_order, rs_stack, rs_ret, rs_pc,
                ck_stack, ck_ret, ck_pc, ck_calls, an_pc>>

NextMappings == LoadMappings

SpecMappings == InitMappings /\ [][NextMappings]_vars

-----------------------------------------------------------------------------
(* Claims about load_mappings, checked under SpecMappings *)

\* the tab-separated fields of a line
FieldsOf(line) == split(strip(line), "\t")

\* a line that gives a pair: it is text, it is not blank, it is no comment,
\* and it has two tab-separated fields or more, the first two not empty
WellFormed(line) ==
    /\ \A j \in 1..Len(line) : line[j] # Undecodable
    /\ strip(line) # <<>>
    /\ ~StartsWith(strip(line), "#")
    /\ Len(FieldsOf(line)) >= 2
    /\ strip(FieldsOf(line)[1]) # <<>>
    /\ strip(FieldsOf(line)[2]) # <<>>

\* the old -> new pairs of the well-formed lines, a later line of the same
\* old name replacing an earlier one
PairsOf(lines) ==
    LET good == {i \in 1..Len(lines) : WellFormed(lines[i])}
        key(i) == strip(FieldsOf(lines[i])[1])
    IN  [k \in {key(i) : i \in good} |->
            LET j == CHOOSE i \in good :
                        key(i) = k /\ \A h \in good : key(h) = k => h <= i
            IN  strip(FieldsOf(lines[j])[2])]

\* the lines of the file the analyzer was given, none when there is no file
LinesGiven ==
    IF mapping_file.given /\ mapping_file.exists THEN mapping_file.lines ELSE <<>>

\* C22: load_mappings returns exactly the old -> new pairs of the
\* well-formed lines of the mapping file: blank lines, comment lines and
\* lines with fewer than two tab-separated fields give nothing, and no
\* malformed line discards the pairs of the other lines.
C22_Original ==
    last.op = "load_mappings" => last.result = PairsOf(LinesGiven)

-----------------------------------------------------------------------------
(* The engine on element types that refer to further types: chains of      *)
(* element types longer than the depth cap, and chains that lead back to   *)
(* their first type                                                         *)

MaxDeep == 7

\* eml:O1, eml:O2, ... in the old version, eml:N1, eml:N2, ... in the new one
DeepType(tag, i) == <<"eml:", tag, ToString(i)>>

\* eml:R1, eml:R2, ... are in both versions; the element a of eml:Rk has the
\* type eml:Ok in the old version and eml:Nk in the new one
HolderType(k) == <<"eml:", "R", ToString(k)>>

\* the type of element a of the i-th type of a chain of n types
DeepNext(tag, i, n, closed) ==
    IF i < n THEN DeepType(tag, i + 1)
    ELSE IF closed THEN DeepType(tag, 1) ELSE XsString

\* n types, each with an element a of the next type and an optional element
\* b; the type at `required`, if any, has b with minOccurs = maxOccurs = 1
DeepRegistry(tag, n, closed, required) ==
    [ k \in {DeepType(tag, i) : i \in 1..n} \cup {HolderType(i) : i \in 1..n} |->
        IF k \in {HolderType(i) : i \in 1..n}
        THEN PlainType(ElemA(DeepType(tag, CHOOSE i \in 1..n : HolderType(i) = k)),
                       <<>>, <<>>)
        ELSE LET i == CHOOSE j \in 1..n : DeepType(tag, j) = k
             IN  PlainType(ElemA(DeepNext(tag, i, n, closed)),
                           IF i = required THEN ElemB(None, None)
                           ELSE ElemB(Str("0"), Str("unbounded")),
                           <<>>) ]

InitDeep ==
    /\ NoFiles
    /\ \E n \in 1..MaxDeep, closed \in BOOLEAN :
          /\ old_types = DeepRegistry("O", n, closed, 0)
          /\ \E required \in {0, 1, n} :
                new_types = DeepRegistry("N", n, closed, required)
    /\ old_attrs = GlobalAttrs
    /\ new_attrs = GlobalAttrs
    /\ type_mappings = EmptyDict
    /\ type_compat_cache = EmptyDict
    /\ set_order \in SetOrders \cup CollidingOrders
    /\ last = NoCall
    /\ rs_stack = <<>>
    /\ rs_ret = EmptyModel
    /\ rs_pc = "off"
    /\ CheckOff

\* analyzer.check_type_content_compatibility('eml:Oi', 'eml:Ni')
CheckDeep ==
    \E i \in 1..MaxDeep :
        /\ DeepType("O", i) \in DOMAIN old_types
        /\ CheckTypeContentCompatibility(DeepType("O", i), DeepType("N", i))

\* analyzer.compare_type('eml:Rk', None), as the loop of analyze calls it
CompareDeep ==
    \E k \in 1..MaxDeep : CompareType(HolderType(k), None)

NextDeep == CheckDeep

SpecDeep == InitDeep /\ [][NextDeep]_vars

NextRun == CompareDeep

SpecRun == InitDeep /\ [][NextRun]_vars

-----------------------------------------------------------------------------
(* Claims about the memoization cache, checked under SpecDeep *)

\* the keys the last call wrote, in the order of the writes
WrittenKeys == [i \in 1..Len(last.writes) |-> last.writes[i][1]]

\* no key is written twice by the last call
WrittenOnce ==
    \A i, j \in 1..Len(last.writes) : i # j => WrittenKeys[i] # WrittenKeys[j]

\* no write of the last call puts another verdict where one was stored
NeverReplaced ==
    /\ \A i, j \in 1..Len(last.writes) :
          WrittenKeys[i] = WrittenKeys[j] => last.writes[i][2] = last.writes[j][2]
    /\ \A i \in 1..Len(last.writes) :
          WrittenKeys[i] \in DOMAIN last.cache =>
              last.writes[i][2] = last.cache[WrittenKeys[i]]

\* C23: over any sequence of compatibility checks on one analyzer, with element
\* types that lead back to a pair under evaluation included, no key of the
\* cache is written a second time: not twice within a check, not again once
\* it is stored, and no stored verdict is replaced by another one.
C23_Original ==
    IsCheck =>
        /\ WrittenOnce
        /\ \A i \in 1..Len(last.writes) : WrittenKeys[i] \notin DOMAIN last.cache
        /\ NeverReplaced
        /\ \A k \in DOMAIN last.cache :
              k \in DOMAIN type_compat_cache /\ type_compat_cache[k] = last.cache[k]

\* the verdict of a fresh evaluation of the pair at depth 0 with an empty cache
FreshVerdict(cache_key) ==
    check_type_content_compatibility(cache_key[1], cache_key[2], 0,
                                     EmptyCache, set_order).result

\* C24: every verdict stored in the cache for a key (old name, new name)
\* equals the verdict a fresh evaluation of that pair at depth 0 with an
\* empty cache returns, a verdict first stored at a depth k > 0 included.
C24_Original ==
    IsCheck =>
        \A cache_key \in DOMAIN type_compat_cache :
            type_compat_cache[cache_key] = FreshVerdict(cache_key)

-----------------------------------------------------------------------------
(* Independence of the records of one run, checked under SpecRun *)

\* C25: the record compare_type produces for an old type is the same
\* whatever was compared before it in the same run: it is the record the
\* same call produces on an empty cache.
C25_Original ==
    IsCompare =>
        last.result = compare_type(last.qualified_name, last.mapped_name,
                                   EmptyCache, set_order).result

-----------------------------------------------------------------------------
(* extract_local_elements and extract_local_attributes on one complexType  *)

MaxGroups == 3
MaxAttrs == 2

TypeT == <<"eml:", "T">>

\* the xs:element children a group may have: name a is declared twice with
\* different types and cardinalities
ElemLists ==
    { <<>>,
      << XsElement(<<"a">>, TypeA, Str("0"), None) >>,
      << XsElement(<<"a">>, TypeB, None, Str("unbounded")) >>,
      << XsElement(<<"b">>, <<"xs:", "string">>, None, None) >>,
      << XsElement(<<"a">>, TypeA, Str("0"), None),
         XsElement(<<"b">>, <<"xs:", "string">>, None, None) >>,
      << XsElement(<<"b">>, <<"xs:", "int">>, Str("0"), None),
         XsElement(<<"a">>, TypeB, None, Str("unbounded")) >> }

\* the xs:sequence / xs:choice nodes under a complexType, in document order;
\* the groups follow each other (or lie in a wrapper without elements of its
\* own), so the elements of a group precede those of the next one
GroupLists ==
    UNION { [1..n -> { XsGroup(kind, elems) :
                         kind \in {"sequence", "choice"}, elems \in ElemLists }] :
            n \in 0..MaxGroups }

\* the xs:attribute nodes a complexType may have
AttrNodes ==
    { XsAttribute(None, <<"gml:", "id">>, None),
      XsAttribute(None, <<"gml:", "id">>, Str("required")),
      XsAttribute(None, <<"gml:", "id">>, Str("optional")),
      XsAttribute(None, <<"diggs:", "zz">>, Str("required")),
      XsAttribute(<<"x">>, None, Str("required")),
      XsAttribute(<<"x">>, None, None) }

AttrLists == UNION { [1..n -> AttrNodes] : n \in 0..MaxAttrs }

\* the global declaration of id, with each use it may state
GlobalAttrChoices ==
    { [k \in {<<"id">>} |-> XsAttribute(<<"id">>, None, use)] :
        use \in {None, Str("optional"), Str("required")} }

ExtractInputs ==
    { <<XsComplexType("none", None, groups, <<>>), GlobalAttrs>> : groups \in GroupLists }
    \cup
    { <<XsComplexType("none", None, <<>>, attrs), all_attrs>> :
          attrs \in AttrLists, all_attrs \in GlobalAttrChoices }

InitExtract ==
    /\ NoFiles
    /\ \E input \in ExtractInputs :
          /\ old_types = [k \in {TypeT} |-> input[1]]
          /\ old_attrs = input[2]
    /\ new_types = EmptyDict
    /\ new_attrs = EmptyDict
    /\ type_mappings = EmptyDict
    /\ type_compat_cache = EmptyDict
    /\ set_order = <<>>
    /\ last = NoCall
    /\ rs_stack = <<>>
    /\ rs_ret = EmptyModel
    /\ rs_pc = "off"
    /\ CheckOff

ExtractUnchanged ==
    UNCHANGED <<old_dir, new_dir, mapping_file, old_simpletypes, new_simpletypes,
                old_types, new_types, old_attrs, new_attrs, type_mappings,
                type_compat_cache, set_order, rs_stack, rs_ret, rs_pc,
                ck_stack, ck_ret, ck_pc, ck_calls, an_pc>>

\* extract_local_elements(complex_type, namespaces)
ExtractLocalElements ==
    /\ last' = [op |-> "extract_local_elements",
                result |-> extract_local_elements(old_types[TypeT])]
    /\ ExtractUnchanged

\* extract_local_attributes(complex_type, all_attrs, namespaces)
ExtractLocalAttributes ==
    /\ last' = [op |-> "extract_local_attributes",
                result |-> extract_local_attributes(old_types[TypeT], old_attrs)]
    /\ ExtractUnchanged

NextExtract == ExtractLocalElements \/ ExtractLocalAttributes

SpecExtract == InitExtract /\ [][NextExtract]_vars

-----------------------------------------------------------------------------
(* Claims about the extraction, checked under SpecExtract *)

\* the element declarations under the node in document order
DocumentOrder ==
    Flatten([i \in 1..Len(old_types[TypeT].groups) |->
                [j \in 1..Len(old_types[TypeT].groups[i].elems) |->
                    elem_info(old_types[TypeT].groups[i].elems[j])]])

\* the first declaration of the name in document order
FirstOccurrence(name) ==
    DocumentOrder[CHOOSE i \in 1..Len(DocumentOrder) :
                     /\ DocumentOrder[i].name = name
                     /\ \A j \in 1..(i - 1) : DocumentOrder[j].name # name]

\* C26: the list of local elements has each name at most once, has every
\* element declared in a sequence or choice under the node, and keeps for a
\* repeated name the declaration that comes first in document order, be it
\* in a sequence or in a choice.
C26_Original ==
    last.op = "extract_local_elements" =>
        LET elements == last.result.elements
        IN  /\ \A i, j \in 1..Len(elements) :
                  i # j => elements[i].name # elements[j].name
            /\ {elements[i].name : i \in 1..Len(elements)}
                  = {DocumentOrder[i].name : i \in 1..Len(DocumentOrder)}
            /\ \A i \in 1..Len(elements) :
                  elements[i] = FirstOccurrence(elements[i].name)

\* the global declaration an xs:attribute node refers to, as a one-entry
\* sequence, <<>> when there is none
ReferencedDeclaration(attr) ==
    LET attr_name == Replace(Replace(Replace(clean_type_name(attr.ref), "gml:"),
                                     "diggs:"), "xml:")
    IN  IF attr_name \in DOMAIN old_attrs THEN << old_attrs[attr_name] >> ELSE <<>>

\* the xs:attribute nodes that give an entry: the named ones and the
\* references that resolve
EntryNodes ==
    SelectSeq(old_types[TypeT].attrs,
              LAMBDA attr : Truthy(attr.ref) => ReferencedDeclaration(attr) # <<>>)

\* C27: an attribute included by ref gets the use of the referenced global
\* declaration unless the referencing node states a use, which then wins; a
\* ref to a declaration with use required and no local use is required.
C27_Original ==
    last.op = "extract_local_attributes" =>
        /\ Len(last.result) = Len(EntryNodes)
        /\ \A i \in 1..Len(EntryNodes) :
              Truthy(EntryNodes[i].ref) =>
                  last.result[i].use =
                      IF Truthy(EntryNodes[i].use) THEN EntryNodes[i].use
                      ELSE Get(ReferencedDeclaration(EntryNodes[i])[1].use,
                               Str("optional"))

-----------------------------------------------------------------------------
(* check_type_content_compatibility as the recursion it is: one frame per  *)
(* call.  The top frame of ck_stack is the call being entered (ck_pc =     *)
(* "call"), the call in its loop over common_elems (ck_pc = "loop"), or    *)
(* the call that has just got ck_ret back from the nested call it made     *)
(* for the head of its names (ck_pc = "return").                           *)

MaxCalls == 2

CkFrame(old_type, new_type, depth) ==
    [old_type |-> old_type, new_type |-> new_type, depth |-> depth,
     cm_old |-> EmptyModel, cm_new |-> EmptyModel, names |-> <<>>]

CkTop == ck_stack[Len(ck_stack)]

CkPopped == SubSeq(ck_stack, 1, Len(ck_stack) - 1)

\* cache_key = (old_type, new_type)
CkKey == <<CkTop.old_type, CkTop.new_type>>

\* lines 298 and 303: cm_old and cm_new of the call on top
CkOldModel ==
    resolve_content_model(normalize_type_name(CkTop.old_type), old_types, old_attrs, {}, 0)
CkNewModel ==
    resolve_content_model(normalize_type_name(CkTop.new_type), new_types, new_attrs, {}, 0)

\* line 256
DepthCapReachedMutNever(depth) == FALSE
DepthCapReached(depth) == depth > COMPAT_DEPTH_CAP

CkUnchanged ==
    UNCHANGED <<old_dir, new_dir, mapping_file, old_simpletypes, new_simpletypes,
                old_types, new_types, old_attrs, new_attrs, type_mappings,
                set_order, rs_stack, rs_ret, rs_pc, an_pc>>

\* return result
CkReturn(result) ==
    /\ ck_stack' = CkPopped
    /\ ck_ret' = result
    /\ ck_pc' = "return"
    /\ UNCHANGED <<type_compat_cache, last, ck_calls>>
    /\ CkUnchanged

\* self.type_compat_cache[cache_key] = result; return result
CkStore(result) ==
    /\ type_compat_cache' = Overlay(type_compat_cache, [k \in {CkKey} |-> result])
    /\ last' = [last EXCEPT !.writes = Append(@, <<CkKey, result>>)]
    /\ ck_stack' = CkPopped
    /\ ck_ret' = result
    /\ ck_pc' = "return"
    /\ UNCHANGED ck_calls
    /\ CkUnchanged

\* lines 264-295: the verdict of the rules that return before the content
\* models are resolved, as a one-entry sequence; <<>> when none returns
EarlyNameVerdict(old_type, new_type) ==
    LET old_normalized == normalize_type_name(old_type)
        new_normalized == normalize_type_name(new_type)
    IN
    IF TypesIdentical(old_normalized, new_normalized)
    THEN << Result(TRUE, <<"Types identical">>) >>
    ELSE IF /\ old_normalized \in DOMAIN type_mappings
            /\ normalize_type_name(type_mappings[old_normalized]) = new_normalized
    THEN << Result(TRUE, <<"Known mapping">>) >>
    ELSE IF is_builtin_type(old_type) \/ is_builtin_type(new_type)
    THEN << IF old_normalized = new_normalized
            THEN Result(TRUE, <<"Same built-in type">>)
            ELSE Result(FALSE, <<"Built-in type change: ">> \o old_normalized
                               \o <<" -> ">> \o new_normalized) >>
    ELSE IF old_normalized \notin DOMAIN old_types
    THEN << Result(FALSE,
               <<"Old type ">> \o old_normalized \o <<" not found in old schema">>) >>
    ELSE IF new_normalized \notin DOMAIN new_types
    THEN << Result(FALSE,
               <<"New type ">> \o new_normalized \o <<" not found in new schema">>) >>
    ELSE <<>>

\* lines 320-348: the verdict of the rules on the names of the two content
\* models (or the TypeError raised), as a one-entry sequence; <<>> when none
\* returns
EarlyModelVerdict(cm_old, cm_new) ==
    LET missing_elems == Difference(NameSet(cm_old.element_keys, set_order),
                                    NameSet(cm_new.element_keys, set_order), set_order)
        missing_attrs == Difference(NameSet(cm_old.attribute_keys, set_order),
                                    NameSet(cm_new.attribute_keys, set_order), set_order)
        new_required  == NewRequiredElements(cm_old, cm_new, set_order)
        new_req_attrs == NewRequiredAttributes(cm_old, cm_new, set_order)
    IN
    IF missing_elems # EmptyDict
    THEN << MissingReason("Missing elements: ", missing_elems) >>
    ELSE IF missing_attrs # EmptyDict
    THEN << MissingReason("Missing attributes: ", missing_attrs) >>
    ELSE IF new_required # <<>>
    THEN << Result(FALSE, <<"New required element: ">> \o Head(new_required)) >>
    ELSE IF new_req_attrs # <<>>
    THEN << Result(FALSE, <<"New required attribute: ">> \o Head(new_req_attrs)) >>
    ELSE <<>>

\* the pairs a top-level call is made on
DeepPairs ==
    { <<DeepType("O", i), DeepType("N", i)>> :
          i \in {j \in 1..MaxDeep : DeepType("O", j) \in DOMAIN old_types} }
    \cup { <<DeepType("O", 1), <<"xs:", "string">>>> }

\* analyzer.check_type_content_compatibility(old_type, new_type): the call
CheckStart ==
    /\ ck_pc \in {"off", "done"}
    /\ ck_calls < MaxCalls
    /\ \E pair \in DeepPairs :
          /\ ck_stack' = << CkFrame(pair[1], pair[2], 0) >>
          /\ last' = [op |-> "call", old_type |-> pair[1], new_type |-> pair[2],
                      cache |-> type_compat_cache, writes |-> <<>>]
    /\ ck_pc' = "call"
    /\ ck_calls' = ck_calls + 1
    /\ UNCHANGED <<type_compat_cache, ck_ret>>
    /\ CkUnchanged

\* lines 256-257: a call entered beyond the depth cap
CheckCapped ==
    /\ ck_pc = "call"
    /\ DepthCapReached(CkTop.depth)
    /\ CkReturn(Result(TRUE, <<"Max recursion depth reached">>))

\* lines 260-262: the key is in the cache
CheckCached ==
    /\ ck_pc = "call"
    /\ ~DepthCapReached(CkTop.depth)
    /\ CkKey \in DOMAIN type_compat_cache
    /\ CkReturn(type_compat_cache[CkKey])

\* lines 264-295: one of the rules on the two names returns
CheckNames ==
    /\ ck_pc = "call"
    /\ ~DepthCapReached(CkTop.depth)
    /\ CkKey \notin DOMAIN type_compat_cache
    /\ \E early \in {EarlyNameVerdict(CkTop.old_type, CkTop.new_type)} :
          /\ early # <<>>
          /\ CkStore(early[1])

\* lines 297-350: the content models are resolved; one of the rules on
\* their names returns, or the loop over common_elems starts
CheckModels ==
    /\ ck_pc = "call"
    /\ ~DepthCapReached(CkTop.depth)
    /\ CkKey \notin DOMAIN type_compat_cache
    /\ EarlyNameVerdict(CkTop.old_type, CkTop.new_type) = <<>>
    /\ \E cm_old \in {CkOldModel}, cm_new \in {CkNewModel} :
        \E early \in {EarlyModelVerdict(cm_old, cm_new)} :
          IF early # <<>>
          THEN IF Raised(early[1]) THEN CkReturn(early[1]) ELSE CkStore(early[1])
          ELSE /\ ck_stack' = [ck_stack EXCEPT ![Len(ck_stack)] =
                                 [@ EXCEPT !.cm_old = cm_old, !.cm_new = cm_new,
                                           !.names = Iter(Intersection(
                                               NameSet(cm_old.element_keys, set_order),
                                               NameSet(cm_new.element_keys, set_order),
                                               set_order))]]
               /\ ck_pc' = "loop"
               /\ UNCHANGED <<type_compat_cache, last, ck_ret, ck_calls>>
               /\ CkUnchanged

\* lines 376-390: the loop is over
CheckAttributes ==
    /\ ck_pc = "loop"
    /\ CkTop.names = <<>>
    /\ \E now_required \in {AttributesNowRequired(CkTop.cm_old, CkTop.cm_new, set_order)} :
          IF now_required # <<>>
          THEN CkStore(Result(FALSE,
                   <<"Attribute now required: ">> \o Head(now_required)))
          ELSE CkStore(Result(TRUE, <<"Content models compatible">>))

\* lines 352-374: one pass of the loop, up to its nested call
CheckElement ==
    /\ ck_pc = "loop"
    /\ CkTop.names # <<>>
    /\ \E elem_name \in {Head(CkTop.names)} :
        \E e_old \in {CkTop.cm_old.elements[elem_name]},
           e_new \in {CkTop.cm_new.elements[elem_name]} :
          IF CardinalityRestricted(e_old, e_new)
          THEN CkStore(Result(FALSE,
                   <<"Cardinality restricted on element: ">> \o elem_name))
          ELSE IF TypeChanged(e_old, e_new)
          THEN /\ ck_stack' = Append(ck_stack,
                                  CkFrame(e_old.type, e_new.type, CkTop.depth + 1))
               /\ ck_pc' = "call"
               /\ UNCHANGED <<type_compat_cache, last, ck_ret, ck_calls>>
               /\ CkUnchanged
          ELSE /\ ck_stack' = [ck_stack EXCEPT ![Len(ck_stack)].names = Tail(@)]
               /\ UNCHANGED <<type_compat_cache, last, ck_ret, ck_pc, ck_calls>>
               /\ CkUnchanged

\* lines 368-374: the nested call has returned to the frame that made it
CheckResume ==
    /\ ck_pc = "return"
    /\ ck_stack # <<>>
    /\ IF Raised(ck_ret) THEN CkReturn(ck_ret)
       ELSE IF ~ck_ret.ok
       THEN CkStore(Result(FALSE, <<"Incompatible type change on ">>
                \o Head(CkTop.names) \o <<": ">> \o ck_ret.reason))
       ELSE /\ ck_stack' = [ck_stack EXCEPT ![Len(ck_stack)].names = Tail(@)]
            /\ ck_pc' = "loop"
            /\ UNCHANGED <<type_compat_cache, last, ck_ret, ck_calls>>
            /\ CkUnchanged

\* the top-level call has returned to its caller
CheckDone ==
    /\ ck_pc = "return"
    /\ ck_stack = <<>>
    /\ ck_pc' = "done"
    /\ last' = [op |-> "check_type_content_compatibility",
                old_type |-> last.old_type, new_type |-> last.new_type,
                cache |-> last.cache, writes |-> last.writes, result |-> ck_ret]
    /\ UNCHANGED <<type_compat_cache, ck_stack, ck_ret, ck_calls>>
    /\ CkUnchanged

CheckStep ==
    \/ CheckCapped
    \/ CheckCached
    \/ CheckNames
    \/ CheckModels
    \/ CheckElement
    \/ CheckAttributes
    \/ CheckResume
    \/ CheckDone

NextCheck == CheckStart \/ CheckStep

\* a call that has been made goes on until it returns
SpecCheck == InitDeep /\ [][NextCheck]_vars /\ WF_vars(CheckStep)

-----------------------------------------------------------------------------
(* Claims about the recursion of the compatibility check, under SpecCheck *)

CheckRunning == ck_pc \in {"call", "loop", "return"}

\* the frames are nested at depths 0, 1, 2, ... and none lies deeper than 6
DepthBounded ==
    \A i \in 1..Len(ck_stack) :
        ck_stack[i].depth = i - 1 /\ ck_stack[i].depth <= COMPAT_DEPTH_CAP + 1

\* a call entered at a depth greater than 5 returns (compatible, 'Max
\* recursion depth reached') to its caller and leaves the cache as it is,
\* whatever the cache holds for its key
CappedCallReturns ==
    (ck_pc = "call" /\ CkTop.depth > 5) =>
        /\ ck_pc' = "return"
        /\ ck_stack' = CkPopped
        /\ ck_ret' = Result(TRUE, <<"Max recursion depth reached">>)
        /\ type_compat_cache' = type_compat_cache
        /\ last'.writes = last.writes

\* C28: every call of check_type_content_compatibility returns, also when
\* the element types lead back to a pair under evaluation; the nesting of
\* the evaluations never exceeds depth 6; and a call entered at a depth
\* greater than 5 returns (compatible, 'Max recursion depth reached')
\* without reading or writing the cache.
C28_Theorem ==
    /\ []DepthBounded
    /\ [][CappedCallReturns]_vars
    /\ (CheckRunning ~> (ck_pc = "done"))

\* a call at depth 6 has returned its capped result to the frame at depth
\* 5, the pair it was made on being one that is still under evaluation
C28_Witness ==
    /\ ck_pc = "return"
    /\ Len(ck_stack) = COMPAT_DEPTH_CAP + 1
    /\ ck_ret = Result(TRUE, <<"Max recursion depth reached">>)
    /\ LET elem_name == Head(CkTop.names)
           cache_key == <<CkTop.cm_old.elements[elem_name].type,
                          CkTop.cm_new.elements[elem_name].type>>
       IN  \E i \in 1..Len(ck_stack) :
               <<ck_stack[i].old_type, ck_stack[i].new_type>> = cache_key

-----------------------------------------------------------------------------
(* 'unbounded' in the cardinality comparisons, checked under Spec *)

\* maxOccurs of the element went from unbounded to a number
FromUnbounded(elem_name) ==
    /\ OldModel.elements[elem_name].maxOccurs = Str("unbounded")
    /\ isdigit(NewModel.elements[elem_name].maxOccurs)

\* maxOccurs of the element went from a number to unbounded, minOccurs did
\* not rise
ToUnbounded(elem_name) ==
    /\ isdigit(OldModel.elements[elem_name].maxOccurs)
    /\ NewModel.elements[elem_name].maxOccurs = Str("unbounded")
    /\ min_occurs(NewModel.elements[elem_name]) <= min_occurs(OldModel.elements[elem_name])

\* the record lists the element in restricted_cardinality
ListedRestricted(elem_name) ==
    \E i \in 1..Len(last.result.restricted_cardinality) :
        last.result.restricted_cardinality[i]
          = elem_name \o format_cardinality(NewModel.elements[elem_name].minOccurs,
                                            NewModel.elements[elem_name].maxOccurs)

\* C29: in both cardinality comparisons 'unbounded' is above every number:
\* a change of maxOccurs from unbounded to any number n is classified as
\* restricted (incompatible), and a change from n to unbounded is never
\* classified as restricted, however large n is.
C29_Original ==
    /\ Structural =>
          \A e \in CommonElements :
              /\ FromUnbounded(e) => ~last.result.ok
              /\ ToUnbounded(e) =>
                    last.result.reason # <<"Cardinality restricted on element: ">> \o e
    /\ Compared =>
          \A e \in CommonElements :
              /\ FromUnbounded(e) =>
                    ListedRestricted(e) /\ last.result.compatible = Str("No")
              /\ ToUnbounded(e) => ~ListedRestricted(e)

-----------------------------------------------------------------------------
(* The two implementations of the structural rules, checked under Spec *)

\* the record compare_type builds for the two types of the last check, on
\* the cache that check found
RecordOfPair ==
    compare_type(last.old_type, last.new_type,
                 [cache |-> last.cache, writes |-> <<>>], set_order).result

\* C30: for an old type and a new type that are in their registries, have
\* different names and no mapping, the record of compare_type has
\* compatible = 'Yes' exactly when check_type_content_compatibility returns
\* a compatible verdict for the two types.
C30_Original ==
    Structural => (RecordOfPair.compatible = Str("Yes") <=> last.result.ok)

=============================================================================
